---- MODULE Spec2Model ----
(***************************************************************************)
(* A model of the web-search QA system: WebSearchQASystem.process_query    *)
(* (src/src/main.py), the staged QAPipeline (src/src/core/pipeline.py),    *)
(* the in-memory FAISSVectorStore and the durable QdrantPersistentStore    *)
(* (src/src/adapters).                                                     *)
(*                                                                         *)
(* The specifications share the variables:                                 *)
(*   Spec      - systems constructed over sessions and their               *)
(*               process_query calls, step by step;                        *)
(*   SpecStore - two QdrantPersistentStore adapters saving and loading     *)
(*               arbitrary chunk lists in any order;                       *)
(*   SpecVS    - one FAISSVectorStore under add_chunks / search / clear;   *)
(*   SpecRun   - one run of the seven stages over a fresh session, with    *)
(*               the search results, crawls and documents spelled out;     *)
(*   SpecExpand, SpecConfig, SpecFusion - VLLMAdapter.generate_queries,    *)
(*               the construction of a system from a configuration and     *)
(*               reciprocal rank fusion, each applied to bounded inputs.   *)
(***************************************************************************)
EXTENDS Integers, Sequences, FiniteSets, TLC

(***************************************************************************)
(* Bounds of the model.                                                    *)
(***************************************************************************)
\* longest chunk list handed to one add_chunks call in SpecVS
MaxAdd == 2
\* longest chunk list handed to one save_session call in SpecStore
MaxSave == 1
\* most chunks a vector store holds in SpecVS
MaxHeld == 3
\* most chunks one run of the pipeline produces
MaxRunChunks == 1
\* most chunks a system's vector store holds when a process_query call starts
MaxIndexed == 2
\* largest scroll limit tried in SpecStore
MaxLimit == 2
\* ticks of the clock a call is followed for
MaxTime == 1
\* number of process_query calls followed, over all systems
MaxCalls == 2
\* longest result list handed to _reciprocal_rank_fusion
MaxFused == 3
\* most keys a configuration lacks
MaxMissing == 1
\* longest reply of the LLM to the query-expansion prompt, in lines
MaxLines == 4
\* distinct URLs a search returns at most
MaxUrls == 11
\* URLs a search returns twice at most
MaxDup == 1
\* longest text handed to the tokeniser, in characters
MaxText == 4
\* the replies of the LLM to the context prompts of a document repeat after this many
MaxReplies == 2
\* most chunks handed to rerank
MaxReranked == 6
\* getter calls made on a container from outside the system
MaxGets == 2
\* most documents one chunk stage works on
MaxDocs == 4
\* largest value of MAX_CONCURRENT_CHUNKS
MaxPermits == 3
\* most sub-tasks of one gather
MaxInputs == 3
\* most items (search results, chunks) one sub-task returns
MaxItems == 2

(***************************************************************************)
(* Program constants.                                                      *)
(***************************************************************************)
\* VectorParams(size=1024): the size of every collection _init_collection creates
CollectionSize == 1024
\* [0.0] * 1024: the dummy embedding of store_vectors
DummyEmbeddingSize == 1024
\* [0.1] * 1024: the dummy query embedding of retrieve
DummyQuerySize == 1024
\* "vector_dimension": 1024 of the default configuration
DefaultVectorDimension == 1024
\* "vector_dimension": 768 of the test configurations
TestVectorDimension == 768
\* load_session(limit = 1000)
DefaultLimit == 1000
\* retrieve(query, k = 20)
RetrieveK == 20
\* _reciprocal_rank_fusion(..., k = 60)
FusionK == 60
\* len(chunk_text.strip()) < 50, chunk_text[:50]
MinChunkLength == 50
\* "chunk_size": 1000 and "chunk_overlap": 200 of the default configuration
DefaultChunkSize == 1000
DefaultChunkOverlap == 200
\* search(..., max_results=7)
MaxResults == 7
\* unique_urls[:10]
CrawlLimit == 10
\* rerank(..., k=5)
RerankK == 5
\* `if len(token) >= 2`
MinTokenLength == 2
\* os.getenv("MAX_CONCURRENT_CHUNKS", "2")
DefaultConcurrentChunks == 2

Dims == {TestVectorDimension, DefaultVectorDimension}
ChunkIds == {"c1", "c2"}
SessionIds == {"a", "b"}
Systems == {1, 2}

(***************************************************************************)
(* Data.  An embedding is modelled by its length and by a value v that     *)
(* tells the vectors of different texts apart; len = 0 stands for the      *)
(* falsy embeddings None and [].                                           *)
(***************************************************************************)
NoEmbedding == [len |-> 0, v |-> "none"]

Embedding(d, val) == [len |-> d, v |-> val]

SemanticChunk(id, e) == [chunk_id |-> id, embedding |-> e]

\* `if chunk.embedding:`
Truthy(e) == e.len > 0

AllEmbeddings == {NoEmbedding} \cup {Embedding(d, id) : d \in Dims, id \in ChunkIds}

\* the embedder is a function of the text: a chunk's vector carries its id
EmbeddingsOf(id) == {NoEmbedding} \cup {Embedding(d, id) : d \in Dims}

AllChunks == UNION {{SemanticChunk(id, e) : e \in EmbeddingsOf(id)} : id \in ChunkIds}

SeqsUpTo(S, n) == UNION {[1..m -> S] : m \in 0..n}

Range(s) == {s[i] : i \in DOMAIN s}

(***************************************************************************)
(* FAISSVectorStore: a record of the index dimension, the chunk list and   *)
(* the vectors of the flat index in insertion order.                       *)
(***************************************************************************)
FAISSVectorStore(d) == [dimension |-> d, chunks |-> <<>>, index |-> <<>>]

HasEmbedding(c) == Truthy(c.embedding)

\* np.array(embeddings, dtype=float32) raises on rows of different lengths;
\* index.add asserts that the row length is the index dimension
VectorsAccepted(dimension, embeddings) ==
    \A i \in DOMAIN embeddings : embeddings[i].len = dimension

\* add_chunks: the loop appends every chunk with a truthy embedding to
\* self.chunks; only then are the vectors built and added, and that step
\* raises as a whole when a row does not fit.
add_chunks(vs, input) ==
    LET kept == SelectSeq(input, HasEmbedding)
        embeddings == [i \in DOMAIN kept |-> kept[i].embedding]
        fits == VectorsAccepted(vs.dimension, embeddings)
    IN  [store |-> [vs EXCEPT !.chunks = vs.chunks \o kept,
                              !.index = IF fits THEN vs.index \o embeddings ELSE vs.index],
         raised |-> ~fits]

\* clear: a fresh index of the same dimension and an empty chunk list
clear(vs) == [vs EXCEPT !.chunks = <<>>, !.index = <<>>]

Min(a, b) == IF a < b THEN a ELSE b

\* squared L2 distance, kept to what the model tells apart: 0 for the vector
\* of the same text, 1 for any other
Distance(q, e) == IF q.v = e.v THEN 0 ELSE 1

Positions(index, q, dist) ==
    SelectSeq([i \in DOMAIN index |-> i], LAMBDA i : Distance(q, index[i]) = dist)

\* the ids IndexFlatL2.search returns for n neighbours: the stored vectors by
\* increasing distance, then -1 for every neighbour the index cannot supply
Labels(index, q, n) ==
    LET ranked == Positions(index, q, 0) \o Positions(index, q, 1)
    IN  [i \in 1..n |-> IF i <= Len(ranked) THEN ranked[i] ELSE -1]

\* self.chunks[idx]: the model counts positions from 1; Python's -1 is the last
ChunkAt(chunks, idx) == IF idx < 0 THEN chunks[Len(chunks) + 1 + idx] ELSE chunks[idx]

\* search: k is cut to the number of chunks held; the query must have the
\* index dimension; with nothing held the number of neighbours asked for is
\* 0, which faiss builds reject or answer with no neighbour (zero_k_raises).
search(vs, q, k, zero_k_raises) ==
    LET n == Min(k, Len(vs.chunks))
        labels == Labels(vs.index, q, n)
    IN  IF q.len # vs.dimension \/ (n = 0 /\ zero_k_raises)
        THEN [results |-> <<>>, raised |-> TRUE]
        ELSE [results |-> [i \in 1..n |-> ChunkAt(vs.chunks, labels[i])], raised |-> FALSE]

(***************************************************************************)
(* QdrantPersistentStore.  The server holds collections by name; a         *)
(* collection has a vector size and points, a function from point ids to   *)
(* [vector, payload].                                                      *)
(***************************************************************************)
\* the default session_id of QdrantPersistentStore.__init__
DefaultSessionId == "default"

\* a collection name that leaves the session id out
collection_name_shared(session_id) == "session_" \o DefaultSessionId

\* self.collection_name = f"session_{session_id}"
collection_name(session_id) == "session_" \o session_id

CollectionNames == {collection_name(s) : s \in SessionIds \cup {DefaultSessionId}}

NoCollection == [exists |-> FALSE, size |-> 0, points |-> <<>>]

\* _init_collection: an existing collection is reused; a new one is created
\* with size 1024; a failing client call is logged and swallowed
init_collection(cols, name, client_ok) ==
    IF client_ok /\ ~cols[name].exists
    THEN [cols EXCEPT ![name] = [exists |-> TRUE, size |-> CollectionSize, points |-> <<>>]]
    ELSE cols

\* chunk.model_dump(): the payload of a point, a mapping with the chunk's fields
model_dump(chunk) == [chunk_id |-> chunk.chunk_id, embedding |-> chunk.embedding]

\* SemanticChunk(**chunk_data)
FromPayload(payload) == SemanticChunk(payload.chunk_id, payload.embedding)

\* the points save_session builds: PointStruct(id=i, ...) for every chunk with
\* a truthy embedding, i its position in the list counted from 0
PointsOf(chunks) ==
    LET ids == {i - 1 : i \in {j \in DOMAIN chunks : HasEmbedding(chunks[j])}}
    IN  [id \in ids |-> [vector |-> chunks[id + 1].embedding, payload |-> model_dump(chunks[id + 1])]]

\* client.upsert: the server rejects the batch when the collection is missing
\* or a vector has not the collection's size; otherwise each point replaces
\* the point of the same id
UpsertAccepted(col, points, client_ok) ==
    /\ client_ok
    /\ col.exists
    /\ \A id \in DOMAIN points : points[id].vector.len = col.size

Upsert(col, points) ==
    [col EXCEPT !.points = [id \in DOMAIN col.points \cup DOMAIN points |->
                               IF id \in DOMAIN points THEN points[id] ELSE col.points[id]]]

\* save_session: nothing is sent when no chunk has an embedding; a failing
\* upsert is logged and swallowed
save_session(cols, name, chunks, client_ok) ==
    LET points == PointsOf(chunks)
    IN  IF DOMAIN points # {} /\ UpsertAccepted(cols[name], points, client_ok)
        THEN [cols EXCEPT ![name] = Upsert(cols[name], points)]
        ELSE cols

RECURSIVE Ascending(_)
Ascending(ids) ==
    IF ids = {} THEN <<>>
    ELSE LET least == CHOOSE i \in ids : \A j \in ids : i <= j
         IN  <<least>> \o Ascending(ids \ {least})

\* client.scroll(limit): the first `limit` points in the order of their ids
Scroll(col, limit) ==
    LET ids == Ascending(DOMAIN col.points)
    IN  [i \in 1..Min(limit, Len(ids)) |-> col.points[ids[i]]]

\* load_session: the chunks of the scrolled points; any failure yields []
load_session(cols, name, limit, client_ok) ==
    IF client_ok /\ cols[name].exists
    THEN LET page == Scroll(cols[name], limit)
         IN  [i \in DOMAIN page |-> FromPayload(page[i].payload)]
    ELSE <<>>

VARIABLES
    \* the Qdrant server: collection name -> collection
    collections,
    \* SpecStore: the session id of each adapter ("" before it is constructed),
    \* the last call and, per session id, the ids of the chunks with an
    \* embedding that were handed to save_session
    st_session, st_call, st_saved,
    \* SpecVS: one FAISSVectorStore and the last call made on it
    vstore, vs_call,
    \* Spec: per system its construction arguments (system), its
    \* FAISSVectorStore (store), the position of its process_query call (pc),
    \* what its last call returned (result) and the number of its calls;
    \* the locals of the call in flight (call); the length of the vectors the
    \* embedding endpoint serves (embed_dim); whether the server could be
    \* reached when the system last saved (reached)
    system, store, pc, result, calls, call, embed_dim, reached,
    \* SpecRun: the state of one pipeline run (run); SpecExpand: a call of
    \* generate_queries (expansion); SpecConfig: a configuration and the system
    \* built from it (configured); SpecFusion: a call of
    \* _reciprocal_rank_fusion (fusion)
    run, expansion, configured, fusion,
    \* SpecTokenize: a call of the BM25 tokeniser (tokens); SpecChunker: two
    \* chunkings of one document (chunking); SpecRerank: a call of rerank and
    \* the answer built on it (reranking); SpecContainer: a dependency
    \* container and who holds what it handed out (container); SpecPool: the
    \* chunking tasks of one chunk_documents stage (pool)
    tokens, chunking, reranking, container, pool,
    \* SpecRetrieve: a call of retrieve on a vector store (retrieval);
    \* SpecGather: the tasks of one gather and what the stage made of their
    \* results (gathering)
    retrieval, gathering

storeVars == <<st_session, st_call, st_saved>>

vsVars == <<vstore, vs_call>>

sysVars == <<system, store, pc, result, calls, call, embed_dim, reached>>

runVars == <<run, expansion, configured, fusion>>

lateVars == <<retrieval, gathering>>

pureVars == <<tokens, chunking, reranking, container, pool, retrieval, gathering>>

vars == <<collections, st_session, st_call, st_saved, vstore, vs_call,
          system, store, pc, result, calls, call, embed_dim, reached,
          run, expansion, configured, fusion,
          tokens, chunking, reranking, container, pool, retrieval, gathering>>

Adapters == {"p", "q"}

NoStoreCall == [op |-> "none", adapter |-> "", session |-> "", input |-> <<>>, limit |-> 0,
                returned |-> <<>>]

NoCall == [op |-> "none", input |-> <<>>, q |-> NoEmbedding, k |-> 0, before |-> FAISSVectorStore(0),
           raised |-> FALSE, results |-> <<>>]

(***************************************************************************)
(* Texts are sequences of words.                                           *)
(***************************************************************************)
\* "Processing exceeded 10 seconds timeout"
TimeoutText == <<"Processing", "exceeded", "10", "seconds", "timeout">>

\* str.lower() on the words the model uses
LowerWord(w) ==
    CASE w = "Processing" -> "processing"
      [] w = "Test" -> "test"
      [] w = "Upstream" -> "upstream"
      [] OTHER -> w

Lower(text) == [i \in DOMAIN text |-> LowerWord(text[i])]

\* sub in text
Contains(text, sub) ==
    \E i \in 0..(Len(text) - Len(sub)) : \A j \in DOMAIN sub : text[i + j] = sub[j]

\* what a collaborator behind the pipeline's interfaces may raise: the
\* ValueError("Test error") of test_error_handling, a TimeoutError of its own
\* with a message, and the message-less AssertionError of faiss
Exceptions ==
    {[type |-> "ValueError", message |-> <<"Test", "error">>],
     [type |-> "TimeoutError", message |-> <<"Upstream", "stalled">>],
     [type |-> "AssertionError", message |-> <<>>]}

\* asyncio.wait_for raises TimeoutError() when the deadline passes
DeadlineError == [type |-> "TimeoutError", message |-> <<>>]

NoException == [type |-> "none", message |-> <<>>]

(***************************************************************************)
(* WebSearchQASystem.                                                      *)
(***************************************************************************)
Unbuilt == [built |-> FALSE, session_id |-> "", vector_dimension |-> 0, max_processing_time |-> 0,
            after |-> [z \in Systems |-> 0]]

NoResult == [raises |-> FALSE, success |-> FALSE, error |-> <<>>, response |-> FALSE]

\* the locals of a call (elapsed, documents, state_chunks, answered) and what
\* the call did, kept after it returned: the session accesses, the exception
\* that left the pipeline, the stores as they were when the call began
NoLocals == [who |-> 0, elapsed |-> 0, state_chunks |-> <<>>, documents |-> 0, loads |-> 0, saves |-> 0,
             load_ok |-> TRUE, save_ok |-> TRUE, thrown |-> NoException, timed_out |-> FALSE,
             answered |-> FALSE, store_before |-> FAISSVectorStore(0),
             before |-> [n \in CollectionNames |-> NoCollection]]

Stages == {"generate_queries", "search_web", "crawl_documents", "chunk_documents",
           "store_vectors", "retrieve_chunks", "generate_answer"}

\* _build_graph: the entry point and the edges between the nodes
EntryPoint == "generate_queries"

GraphEdges == {<<"generate_queries", "search_web">>, <<"search_web", "crawl_documents">>,
               <<"crawl_documents", "chunk_documents">>, <<"chunk_documents", "store_vectors">>,
               <<"store_vectors", "retrieve_chunks">>, <<"retrieve_chunks", "generate_answer">>}

Busy(y) == pc[y] \in Stages \cup {"save"}

\* the locals are gone when the call returns
Returned(locals) == [locals EXCEPT !.elapsed = 0, !.state_chunks = <<>>, !.documents = 0]

\* the return values of process_query: the success dict ...
SuccessResult == [raises |-> FALSE, success |-> TRUE, error |-> <<>>, response |-> TRUE]

\* str(e) of an exception of the persistent store's client
ClientError == [type |-> "Exception", message |-> <<"Qdrant", "unreachable">>]

\* process_query without `except Exception`: only a TimeoutError is answered
process_query_except_timeout_only(e) ==
    IF e.type = "TimeoutError"
    THEN [raises |-> FALSE, success |-> FALSE, error |-> TimeoutText, response |-> FALSE]
    ELSE [raises |-> TRUE, success |-> FALSE, error |-> <<>>, response |-> FALSE]

\* process_query without `except asyncio.TimeoutError`: str(e) for everything
process_query_except_one_clause(e) ==
    [raises |-> FALSE, success |-> FALSE, error |-> e.message, response |-> FALSE]

\* ... and the two except clauses, `except asyncio.TimeoutError` first:
\* the fixed text for a TimeoutError, str(e) for any other exception
process_query_except(e) ==
    IF e.type = "TimeoutError"
    THEN [raises |-> FALSE, success |-> FALSE, error |-> TimeoutText, response |-> FALSE]
    ELSE [raises |-> FALSE, success |-> FALSE, error |-> e.message, response |-> FALSE]

\* _load_session_data: load_session, then add_chunks when something came
\* back; the bare except swallows whatever either raises
load_session_data(cols, name, vs, client_ok) ==
    LET chunks == load_session(cols, name, DefaultLimit, client_ok)
    IN  [store |-> IF chunks # <<>> THEN add_chunks(vs, chunks).store ELSE vs,
         raised |-> FALSE]

\* _save_session_data without its try/except, over a save_session that lets
\* the client's exception through
save_session_data_unguarded(cols, name, vs, client_ok) ==
    [collections |-> IF vs.chunks # <<>> THEN save_session(cols, name, vs.chunks, client_ok) ELSE cols,
     called |-> vs.chunks # <<>>,
     raised |-> vs.chunks # <<>> /\ ~UpsertAccepted(cols[name], PointsOf(vs.chunks), client_ok)]

\* _save_session_data: save_session with the vector store's chunk list when
\* it is not empty; whatever is raised is printed and swallowed
save_session_data(cols, name, vs, client_ok) ==
    [collections |-> IF vs.chunks # <<>> THEN save_session(cols, name, vs.chunks, client_ok) ELSE cols,
     called |-> vs.chunks # <<>>,
     raised |-> FALSE]

\* WebSearchQASystem(config, session_id): the container builds the vector
\* store with config["vector_dimension"] and the persistent store, whose
\* constructor runs _init_collection
Construct(y) ==
    \E s \in SessionIds, d \in Dims, t \in 0..MaxTime, ok \in BOOLEAN :
        /\ pc[y] = "idle"
        /\ ~system[y].built
        /\ \A z \in Systems : ~Busy(z)
        \* session ids are interchangeable: the first system's is called "a"
        /\ y = 1 => s = "a"
        /\ system' = [system EXCEPT ![y] = [built |-> TRUE, session_id |-> s, vector_dimension |-> d,
                                            max_processing_time |-> t, after |-> calls]]
        /\ store' = [store EXCEPT ![y] = FAISSVectorStore(d)]
        /\ collections' = init_collection(collections, collection_name(s), ok)
        /\ UNCHANGED <<pc, result, calls, call, embed_dim, reached, storeVars, vsVars, runVars, pureVars>>

\* process_query, first statement: await self._load_session_data(); then the
\* pipeline is started under wait_for
LoadSessionData(y) ==
    \E ok \in BOOLEAN :
        /\ system[y].built
        /\ \A z \in Systems : ~Busy(z)
        /\ calls[1] + calls[2] < MaxCalls
        /\ Len(store[y].chunks) <= MaxIndexed
        /\ LET r == load_session_data(collections, collection_name(system[y].session_id), store[y], ok)
           IN  /\ store' = [store EXCEPT ![y] = r.store]
               /\ call' = [NoLocals EXCEPT !.who = y, !.loads = 1, !.load_ok = ok, !.store_before = store[y],
                                           !.before = collections]
               /\ pc' = [pc EXCEPT ![y] = IF r.raised THEN "done" ELSE "generate_queries"]
               /\ result' = [result EXCEPT ![y] = IF r.raised THEN process_query_except(ClientError) ELSE NoResult]
        /\ calls' = [calls EXCEPT ![y] = @ + 1]
        /\ UNCHANGED <<collections, system, embed_dim, reached, storeVars, vsVars, runVars, pureVars>>

\* the pipeline may take a step only while the deadline has not passed
InTime(y) == call.elapsed < system[y].max_processing_time

\* process_query saving the session in a `finally`, on the failure paths too
Fail_saving(y, e, by_deadline) ==
    /\ result' = [result EXCEPT ![y] = process_query_except(e)]
    /\ pc' = [pc EXCEPT ![y] = "done"]
    /\ call' = Returned([call EXCEPT !.thrown = e, !.timed_out = by_deadline, !.saves = @ + 1])
    /\ collections' = save_session(collections, collection_name(system[y].session_id), store[y].chunks, TRUE)
    /\ UNCHANGED store

\* an except clause of process_query returns the failure dict; nothing else
\* is done on that path
Fail(y, e, by_deadline) ==
    /\ result' = [result EXCEPT ![y] = process_query_except(e)]
    /\ pc' = [pc EXCEPT ![y] = "done"]
    /\ call' = Returned([call EXCEPT !.thrown = e, !.timed_out = by_deadline])
    /\ UNCHANGED <<collections, store>>

\* a graph whose nodes may follow one another in any order
Advance_unordered(y, next) ==
    /\ \E s \in Stages \cup {next} : pc' = [pc EXCEPT ![y] = s]
    /\ result' = result

\* the node returned its state and the graph goes on along its edge
Advance(y, next) ==
    /\ pc' = [pc EXCEPT ![y] = next]
    /\ result' = result

\* time passes while the pipeline awaits
Tick(y) ==
    /\ pc[y] \in Stages
    /\ InTime(y)
    /\ call' = [call EXCEPT !.elapsed = @ + 1]
    /\ UNCHANGED <<collections, system, store, pc, result, calls, embed_dim, reached, storeVars, vsVars, runVars, pureVars>>

\* asyncio.wait_for: the deadline passes before the pipeline has returned;
\* the run is cancelled where it stands and TimeoutError is raised
Deadline(y) ==
    /\ pc[y] \in Stages
    /\ ~InTime(y)
    /\ Fail(y, DeadlineError, TRUE)
    /\ UNCHANGED <<system, calls, embed_dim, reached, storeVars, vsVars, runVars, pureVars>>

\* a collaborator raises inside the run (as pipeline.run does in
\* test_error_handling) and the exception leaves wait_for
PipelineRaises(y) ==
    \E e \in Exceptions :
        /\ pc[y] \in Stages
        /\ InTime(y)
        /\ Fail(y, e, FALSE)
        /\ UNCHANGED <<system, calls, embed_dim, reached, storeVars, vsVars, runVars, pureVars>>

\* the stages before chunking; the LLM adapter answers every failure with the
\* trivial expansion, gather(return_exceptions=True) keeps the others going
GenerateSearchQueries(y) ==
    /\ pc[y] = "generate_queries"
    /\ InTime(y)
    /\ Advance(y, "search_web")
    /\ UNCHANGED <<collections, system, store, calls, call, embed_dim, reached, storeVars, vsVars, runVars, pureVars>>

SearchWeb(y) ==
    /\ pc[y] = "search_web"
    /\ InTime(y)
    /\ Advance(y, "crawl_documents")
    /\ UNCHANGED <<collections, system, store, calls, call, embed_dim, reached, storeVars, vsVars, runVars, pureVars>>

\* crawl_documents: the documents whose crawl succeeded
CrawlDocuments(y) ==
    \E n \in 0..1 :
        /\ pc[y] = "crawl_documents"
        /\ InTime(y)
        /\ call' = [call EXCEPT !.documents = n]
        /\ Advance(y, "chunk_documents")
        /\ UNCHANGED <<collections, system, store, calls, embed_dim, reached, storeVars, vsVars, runVars, pureVars>>

\* chunk_documents: state["chunks"], fresh chunks without an embedding;
\* none when there is no document
ChunkDocuments(y) ==
    \E ids \in SeqsUpTo(ChunkIds, MaxRunChunks) :
        /\ pc[y] = "chunk_documents"
        /\ InTime(y)
        /\ call.documents = 0 => ids = <<>>
        /\ call' = [call EXCEPT !.state_chunks = [i \in DOMAIN ids |-> SemanticChunk(ids[i], NoEmbedding)]]
        /\ Advance(y, "store_vectors")
        /\ UNCHANGED <<collections, system, store, calls, embed_dim, reached, storeVars, vsVars, runVars, pureVars>>

\* the embeddings store_vectors gives the chunks that have none: those of the
\* endpoint, or [0.0] * 1024 for every chunk when get_embeddings raised
Embedded(chunks, dim, embed_ok) ==
    [i \in DOMAIN chunks |->
        IF HasEmbedding(chunks[i]) THEN chunks[i]
        ELSE [chunks[i] EXCEPT !.embedding =
                 IF embed_ok THEN Embedding(dim, chunks[i].chunk_id)
                 ELSE Embedding(DummyEmbeddingSize, "zero")]]

\* store_vectors: nothing to do without chunks; else embed and add_chunks,
\* whose exception ends the run
StoreVectors(y) ==
    \E embed_ok \in BOOLEAN :
        /\ pc[y] = "store_vectors"
        /\ InTime(y)
        /\ IF call.state_chunks = <<>>
           THEN /\ Advance(y, "retrieve_chunks")
                /\ UNCHANGED <<store, call, collections>>
           ELSE LET chunks == Embedded(call.state_chunks, embed_dim, embed_ok)
                    r == add_chunks(store[y], chunks)
                IN  IF r.raised
                    THEN /\ result' = [result EXCEPT ![y] = process_query_except([type |-> "AssertionError", message |-> <<>>])]
                         /\ pc' = [pc EXCEPT ![y] = "done"]
                         /\ call' = Returned([call EXCEPT !.thrown = [type |-> "AssertionError", message |-> <<>>]])
                         /\ store' = [store EXCEPT ![y] = r.store]
                         /\ UNCHANGED collections
                    ELSE /\ Advance(y, "retrieve_chunks")
                         /\ call' = [call EXCEPT !.state_chunks = chunks]
                         /\ store' = [store EXCEPT ![y] = r.store]
                         /\ UNCHANGED collections
        /\ UNCHANGED <<system, calls, embed_dim, reached, storeVars, vsVars, runVars, pureVars>>

\* retrieve: the query embedding of the endpoint, or [0.1] * 1024
QueryEmbedding(dim, embed_ok) ==
    IF embed_ok THEN Embedding(dim, "query") ELSE Embedding(DummyQuerySize, "dummy")

\* retrieve_chunks: the dense search of retrieve raises on a query of another
\* length than the index dimension (and, build permitting, on an empty store)
RetrieveChunks(y) ==
    \E embed_ok \in BOOLEAN, zero_k_raises \in BOOLEAN :
        /\ pc[y] = "retrieve_chunks"
        /\ InTime(y)
        /\ LET r == search(store[y], QueryEmbedding(embed_dim, embed_ok), RetrieveK, zero_k_raises)
           IN  IF r.raised
               THEN Fail(y, [type |-> "AssertionError", message |-> <<>>], FALSE)
               ELSE /\ Advance(y, "generate_answer")
                    /\ UNCHANGED <<call, collections, store>>
        /\ UNCHANGED <<system, calls, embed_dim, reached, storeVars, vsVars, runVars, pureVars>>

\* generate_answer mirroring the index into the session store
GenerateAnswer_mirroring(y) ==
    /\ pc[y] = "generate_answer"
    /\ InTime(y)
    /\ Advance(y, "save")
    /\ call' = [call EXCEPT !.answered = TRUE]
    /\ collections' = save_session(collections, collection_name(system[y].session_id), store[y].chunks, TRUE)
    /\ UNCHANGED <<system, store, calls, embed_dim, reached, storeVars, vsVars, runVars, pureVars>>

\* generate_answer: the LLM adapter returns a text also when its call fails;
\* run returns state["response"] and wait_for hands it on
GenerateAnswer(y) ==
    /\ pc[y] = "generate_answer"
    /\ InTime(y)
    /\ Advance(y, "save")
    /\ call' = [call EXCEPT !.answered = TRUE]
    /\ UNCHANGED <<collections, system, store, calls, embed_dim, reached, storeVars, vsVars, runVars, pureVars>>

\* process_query after wait_for: await self._save_session_data(), then the
\* success dict
SaveSessionData(y) ==
    \E ok \in BOOLEAN :
        /\ pc[y] = "save"
        /\ LET r == save_session_data(collections, collection_name(system[y].session_id), store[y], ok)
           IN  /\ collections' = r.collections
               /\ call' = Returned([call EXCEPT !.saves = IF r.called THEN @ + 1 ELSE @,
                                                !.save_ok = ~r.called \/ UpsertAccepted(collections[collection_name(system[y].session_id)],
                                                                                      PointsOf(store[y].chunks), ok)])
               /\ result' = [result EXCEPT ![y] = IF r.raised THEN process_query_except(ClientError) ELSE SuccessResult]
               /\ reached' = [reached EXCEPT ![y] = ok]
        /\ pc' = [pc EXCEPT ![y] = "done"]
        /\ UNCHANGED <<system, store, calls, embed_dim, storeVars, vsVars, runVars, pureVars>>

\* nothing is running in the parts a specification does not follow
NoRun == [pc |-> "none"]

NoExpansion == [pc |-> "none"]

NoConstruction == [pc |-> "none"]

NoFusion == [pc |-> "none"]

NoTokens == [pc |-> "none"]

NoChunking == [pc |-> "none"]

NoReranking == [pc |-> "none"]

NoContainer == [pc |-> "none"]

NoPool == [pc |-> "none"]

NoRetrieval == [pc |-> "none"]

NoGathering == [pc |-> "none"]

LateIdle ==
    /\ retrieval = NoRetrieval
    /\ gathering = NoGathering

PureIdle ==
    /\ tokens = NoTokens
    /\ chunking = NoChunking
    /\ reranking = NoReranking
    /\ container = NoContainer
    /\ pool = NoPool
    /\ LateIdle

RunIdle ==
    /\ run = NoRun
    /\ expansion = NoExpansion
    /\ configured = NoConstruction
    /\ fusion = NoFusion
    /\ PureIdle

SysIdle ==
    /\ system = [y \in Systems |-> Unbuilt]
    /\ store = [y \in Systems |-> FAISSVectorStore(0)]
    /\ pc = [y \in Systems |-> "idle"]
    /\ result = [y \in Systems |-> NoResult]
    /\ calls = [y \in Systems |-> 0]
    /\ call = NoLocals
    /\ embed_dim = DefaultVectorDimension
    /\ reached = [y \in Systems |-> TRUE]

StoreIdle ==
    /\ st_session = [a \in Adapters |-> ""]
    /\ st_call = NoStoreCall
    /\ st_saved = [s \in SessionIds |-> {}]

VSIdle ==
    /\ vstore = FAISSVectorStore(0)
    /\ vs_call = NoCall

\* the systems in `present` can be constructed; the embedding endpoint serves
\* vectors of either length
SysInit(present) ==
    /\ collections = [n \in CollectionNames |-> NoCollection]
    /\ system = [y \in Systems |-> Unbuilt]
    /\ store = [y \in Systems |-> FAISSVectorStore(0)]
    /\ pc = [y \in Systems |-> IF y \in present THEN "idle" ELSE "absent"]
    /\ result = [y \in Systems |-> NoResult]
    /\ calls = [y \in Systems |-> 0]
    /\ call = NoLocals
    /\ embed_dim \in Dims
    /\ reached = [y \in Systems |-> TRUE]
    /\ StoreIdle
    /\ VSIdle
    /\ RunIdle

\* Spec: one system and its calls
Init == SysInit({1})

\* SpecResume: two systems, constructed in any order over the same or over
\* different sessions, calling one after the other
InitResume == SysInit(Systems)

Next ==
    \E y \in Systems :
        \/ Construct(y)
        \/ LoadSessionData(y)
        \/ Tick(y)
        \/ Deadline(y)
        \/ PipelineRaises(y)
        \/ GenerateSearchQueries(y)
        \/ SearchWeb(y)
        \/ CrawlDocuments(y)
        \/ ChunkDocuments(y)
        \/ StoreVectors(y)
        \/ RetrieveChunks(y)
        \/ GenerateAnswer(y)
        \/ SaveSessionData(y)

Spec == Init /\ [][Next]_vars

SpecResume == InitResume /\ [][Next]_vars

(***************************************************************************)
(* SpecStore: two QdrantPersistentStore adapters, constructed over any     *)
(* session ids, save and load in any order against a reachable server      *)
(* (failing client calls are part of Spec).                                *)
(***************************************************************************)
StoreInit ==
    /\ collections = [n \in CollectionNames |-> NoCollection]
    /\ StoreIdle
    /\ VSIdle
    /\ SysIdle
    /\ RunIdle

\* QdrantPersistentStore(session_id): connect, name the collection, _init_collection
StoreConstruct ==
    \E a \in Adapters, s \in SessionIds :
        /\ st_session[a] = ""
        /\ st_session' = [st_session EXCEPT ![a] = s]
        /\ collections' = init_collection(collections, collection_name(s), TRUE)
        /\ UNCHANGED <<st_call, st_saved, vsVars, sysVars, runVars, pureVars>>

StoreSave ==
    \E a \in Adapters, input \in SeqsUpTo(AllChunks, MaxSave) :
        /\ st_session[a] # ""
        /\ collections' = save_session(collections, collection_name(st_session[a]), input, TRUE)
        /\ st_call' = [op |-> "save_session", adapter |-> a, session |-> st_session[a],
                       input |-> input, limit |-> 0, returned |-> <<>>]
        /\ st_saved' = [st_saved EXCEPT ![st_session[a]] = @ \cup {c.chunk_id : c \in {x \in Range(input) : HasEmbedding(x)}}]
        /\ UNCHANGED <<st_session, vsVars, sysVars, runVars, pureVars>>

StoreLoad ==
    \E a \in Adapters, limit \in 1..MaxLimit :
        /\ st_session[a] # ""
        /\ st_call' = [op |-> "load_session", adapter |-> a, session |-> st_session[a],
                       input |-> <<>>, limit |-> limit,
                       returned |-> load_session(collections, collection_name(st_session[a]), limit, TRUE)]
        /\ UNCHANGED <<collections, st_session, st_saved, vsVars, sysVars, runVars, pureVars>>

StoreNext == StoreConstruct \/ StoreSave \/ StoreLoad

SpecStore == StoreInit /\ [][StoreNext]_vars

(***************************************************************************)
(* SpecVS: a vector store of either dimension under any sequence of        *)
(* add_chunks, search and clear calls.                                     *)
(***************************************************************************)
VSInit ==
    /\ collections = [n \in CollectionNames |-> NoCollection]
    /\ StoreIdle
    /\ SysIdle
    /\ RunIdle
    /\ vstore \in {FAISSVectorStore(d) : d \in Dims}
    /\ vs_call = NoCall

VSAddChunks ==
    \E input \in SeqsUpTo(AllChunks, MaxAdd) :
        /\ Len(vstore.chunks) + Len(input) <= MaxHeld
        /\ LET r == add_chunks(vstore, input)
           IN  /\ vstore' = r.store
               /\ vs_call' = [op |-> "add_chunks", input |-> input, q |-> NoEmbedding, k |-> 0, before |-> vstore,
                              raised |-> r.raised, results |-> <<>>]
               /\ UNCHANGED <<collections, storeVars, sysVars, runVars, pureVars>>

VSSearch ==
    \E q \in AllEmbeddings \ {NoEmbedding}, k \in 1..MaxHeld, z \in BOOLEAN :
        LET r == search(vstore, q, k, z)
        IN  /\ vstore' = vstore
            /\ vs_call' = [op |-> "search", input |-> <<>>, q |-> q, k |-> k, before |-> vstore,
                           raised |-> r.raised, results |-> r.results]
            /\ UNCHANGED <<collections, storeVars, sysVars, runVars, pureVars>>

VSClear ==
    /\ vstore' = clear(vstore)
    /\ vs_call' = [op |-> "clear", input |-> <<>>, q |-> NoEmbedding, k |-> 0, before |-> vstore,
                   raised |-> FALSE, results |-> <<>>]
    /\ UNCHANGED <<collections, storeVars, sysVars, runVars, pureVars>>

VSNext == VSAddChunks \/ VSSearch \/ VSClear

SpecVS == VSInit /\ [][VSNext]_vars

(***************************************************************************)
(* SpecEmbed: store_vectors on a vector store, with an embedder that       *)
(* raises or returns any number of vectors up to the number of texts.      *)
(***************************************************************************)
\* what get_embeddings did: raised, or returned `count` vectors
EmbedderReplies(texts) == {[ok |-> FALSE, count |-> 0]} \cup {[ok |-> TRUE, count |-> c] : c \in 0..texts}

\* chunks_without_embedding, as positions of state["chunks"]
WithoutEmbedding(chunks) == {i \in DOMAIN chunks : ~HasEmbedding(chunks[i])}

\* the try block of store_vectors: zip pairs the chunks without an embedding
\* with the vectors returned and stops at the shorter list; the except
\* clause gives every such chunk [0.0] * 1024
zip_embeddings(chunks, dim, reply) ==
    [i \in DOMAIN chunks |->
        IF HasEmbedding(chunks[i]) THEN chunks[i]
        ELSE IF ~reply.ok THEN [chunks[i] EXCEPT !.embedding = Embedding(DummyEmbeddingSize, "zero")]
        ELSE IF Cardinality({j \in WithoutEmbedding(chunks) : j <= i}) <= reply.count
             THEN [chunks[i] EXCEPT !.embedding = Embedding(dim, chunks[i].chunk_id)]
             ELSE chunks[i]]

\* store_vectors: returns at once without chunks; else embeds and awaits
\* add_chunks with the whole list
store_vectors(vs, chunks, dim, reply) ==
    IF chunks = <<>> THEN [store |-> vs, chunks |-> chunks, raised |-> FALSE]
    ELSE LET embedded == zip_embeddings(chunks, dim, reply)
             r == add_chunks(vs, embedded)
         IN  [store |-> r.store, chunks |-> embedded, raised |-> r.raised]

\* one store stage: state["chunks"] of a run, the endpoint's vector length
\* and its reply; `input` keeps the chunks as the stage left them, k the
\* number of texts the reply had no vector for
StoreVectorsCall ==
    \E chunks \in SeqsUpTo(AllChunks, MaxAdd), dim \in Dims :
        \E reply \in EmbedderReplies(Cardinality(WithoutEmbedding(chunks))) :
            /\ Len(vstore.chunks) + Len(chunks) <= MaxHeld
            /\ LET r == store_vectors(vstore, chunks, dim, reply)
               IN  /\ vstore' = r.store
                   /\ vs_call' = [op |-> "store_vectors", input |-> r.chunks, q |-> NoEmbedding,
                                  k |-> Cardinality(WithoutEmbedding(chunks)) - reply.count,
                                  before |-> vstore, raised |-> r.raised, results |-> <<>>]
            /\ UNCHANGED <<collections, storeVars, sysVars, runVars, pureVars>>

EmbedNext == StoreVectorsCall

SpecEmbed == VSInit /\ [][EmbedNext]_vars

(***************************************************************************)
(* VLLMAdapter.generate_queries.  The reply of the LLM is a sequence of    *)
(* lines; a line is its leading blank (indent), its head up to and with    *)
(* the first "." (empty when the line has no ".") and the rest (body),     *)
(* which is kept stripped.                                                 *)
(***************************************************************************)
\* the original question
UserQuery == "user query"

Line(indent, head, body) == [indent |-> indent, head |-> head, body |-> body]

\* the lines a reply is made of: numbered lines with and without a query,
\* an indented numbered line, a line numbered 10, plain text, an empty line
ReplyLines ==
    {Line(FALSE, "1.", "x"), Line(FALSE, "2.", "y"), Line(FALSE, "3.", ""), Line(TRUE, "1.", "x"),
     Line(FALSE, "10.", "x"), Line(FALSE, "", "x"), Line(FALSE, "", "")}

\* f"{i}." for i in range(1, 10)
NumberHeads == {"1.", "2.", "3.", "4.", "5.", "6.", "7.", "8.", "9."}

\* line.strip() is not empty
NotBlank(line) == line.head # "" \/ line.body # ""

\* response.strip().split("\n"): the blank lines at both ends go, and so
\* does the indent of the first line left
RECURSIVE StripLeft(_)
StripLeft(lines) ==
    IF lines = <<>> THEN <<>>
    ELSE IF NotBlank(Head(lines)) THEN <<[Head(lines) EXCEPT !.indent = FALSE]>> \o Tail(lines)
    ELSE StripLeft(Tail(lines))

RECURSIVE StripRight(_)
StripRight(lines) ==
    IF lines = <<>> THEN <<>>
    ELSE IF NotBlank(lines[Len(lines)]) THEN lines
    ELSE StripRight(SubSeq(lines, 1, Len(lines) - 1))

SplitLines(response) == StripRight(StripLeft(response))

\* any(line.startswith(f"{i}.") for i in range(1, 10))
Numbered(line) == ~line.indent /\ line.head \in NumberHeads

\* the loop over the lines: the stripped text after the first "." of every
\* numbered line, when it is not empty
ParsedQueries(response) ==
    LET kept == SelectSeq(SplitLines(response), LAMBDA l : NotBlank(l) /\ Numbered(l) /\ l.body # "")
    IN  [i \in DOMAIN kept |-> kept[i].body]

\* processed_queries[:3]
FirstThree(qs) == SubSeq(qs, 1, Min(3, Len(qs)))

SearchQuery(original, processed) == [original_query |-> original, processed_queries |-> processed]

\* what _call_vllm hands back: the text of the reply, or an exception
LLMFailure == [ok |-> FALSE, lines |-> <<>>]

LLMReply(lines) == [ok |-> TRUE, lines |-> lines]

\* generate_queries without the cut to three queries
generate_queries_uncut(user_query, llm) ==
    IF ~llm.ok
    THEN [queries |-> <<SearchQuery(user_query, <<user_query>>)>>, raised |-> FALSE]
    ELSE LET processed == ParsedQueries(llm.lines)
         IN  [queries |-> <<SearchQuery(user_query, IF processed = <<>> THEN <<user_query>> ELSE processed)>>,
              raised |-> FALSE]

\* generate_queries: one SearchQuery with the first three parsed queries, or
\* with the user's query when none was parsed or the call failed
generate_queries(user_query, llm) ==
    IF ~llm.ok
    THEN [queries |-> <<SearchQuery(user_query, <<user_query>>)>>, raised |-> FALSE]
    ELSE LET processed == ParsedQueries(llm.lines)
         IN  [queries |-> <<SearchQuery(user_query, FirstThree(IF processed = <<>> THEN <<user_query>> ELSE processed))>>,
              raised |-> FALSE]

(***************************************************************************)
(* SpecExpand: generate_queries on every reply of up to MaxLines lines     *)
(* and on a failing LLM call.                                              *)
(***************************************************************************)
LLMOutcomes == {LLMFailure} \cup {LLMReply(lines) : lines \in SeqsUpTo(ReplyLines, MaxLines)}

ExpandInit ==
    /\ collections = [n \in CollectionNames |-> NoCollection]
    /\ StoreIdle
    /\ VSIdle
    /\ SysIdle
    /\ run = NoRun
    /\ configured = NoConstruction
    /\ fusion = NoFusion
    /\ PureIdle
    /\ expansion \in {[pc |-> "called", llm |-> o, returned |-> <<>>, raised |-> FALSE] : o \in LLMOutcomes}

GenerateQueries ==
    /\ expansion.pc = "called"
    /\ LET r == generate_queries(UserQuery, expansion.llm)
       IN  expansion' = [expansion EXCEPT !.pc = "returned", !.returned = r.queries, !.raised = r.raised]
    /\ UNCHANGED <<collections, storeVars, vsVars, sysVars, run, configured, fusion, pureVars>>

ExpandNext == GenerateQueries

SpecExpand == ExpandInit /\ [][ExpandNext]_vars

(***************************************************************************)
(* HybridRetrievalAdapter._reciprocal_rank_fusion.  A result item is a     *)
(* chunk with a score (the L2 distance of the dense search, the BM25 score *)
(* of the keyword search).  A fused score is a sum of reciprocals          *)
(* 1/(k + rank + 1); it is kept exactly, as a whole number of units of     *)
(* 1/RankProduct(k, MaxFused), the product of all denominators in use.     *)
(***************************************************************************)
Item(chunk, score) == [chunk |-> chunk, score |-> score]

RECURSIVE RankProduct(_, _)
RankProduct(k, n) == IF n = 0 THEN 1 ELSE (k + n) * RankProduct(k, n - 1)

\* 1 / (k + rank) in units: the rank counted from 1
Reciprocal_rank_from_one(k, rank) == RankProduct(k, MaxFused) \div (k + rank)

\* 1 / (k + rank + 1) in units
Reciprocal(k, rank) == RankProduct(k, MaxFused) \div (k + rank + 1)

\* the ranks (from 0, as enumerate counts) at which a list holds chunk_id
RanksOf(results, chunk_id) == {r \in 0..(Len(results) - 1) : results[r + 1].chunk.chunk_id = chunk_id}

RECURSIVE SumOver(_, _)
SumOver(k, ranks) ==
    IF ranks = {} THEN 0
    ELSE LET r == CHOOSE x \in ranks : TRUE
         IN  Reciprocal(k, r) + SumOver(k, ranks \ {r})

IdsOf(results) == {results[i].chunk.chunk_id : i \in DOMAIN results}

\* the two loops: scores[chunk_id] = scores.get(chunk_id, 0) + 1 / (k + rank + 1)
FusedScores(vector_results, keyword_results, k) ==
    [id \in IdsOf(vector_results) \cup IdsOf(keyword_results) |->
        SumOver(k, RanksOf(vector_results, id)) + SumOver(k, RanksOf(keyword_results, id))]

\* the keys of the scores dict in insertion order: first appearance in
\* vector_results, then in keyword_results
RECURSIVE FirstSeen(_, _)
FirstSeen(results, seen) ==
    IF results = <<>> THEN <<>>
    ELSE LET id == Head(results).chunk.chunk_id
         IN  IF id \in seen THEN FirstSeen(Tail(results), seen)
             ELSE <<id>> \o FirstSeen(Tail(results), seen \cup {id})

\* sorted(scores.items(), key=score, reverse=True): a stable sort, equal
\* scores stay in insertion order
RECURSIVE SortedByScore(_, _)
SortedByScore(ids, scores) ==
    IF ids = <<>> THEN <<>>
    ELSE LET best == CHOOSE i \in DOMAIN ids :
                         /\ \A j \in DOMAIN ids : scores[ids[j]] <= scores[ids[i]]
                         /\ \A j \in 1..(i - 1) : scores[ids[j]] < scores[ids[i]]
         IN  <<ids[best]>> \o SortedByScore(SelectSeq(ids, LAMBDA x : x # ids[best]), scores)

\* chunk_map: for every chunk_id the last item of vector_results + keyword_results
ChunkMap(items) ==
    [id \in IdsOf(items) |->
        items[CHOOSE i \in DOMAIN items :
                  /\ items[i].chunk.chunk_id = id
                  /\ \A j \in DOMAIN items : items[j].chunk.chunk_id = id => j <= i]]

\* _reciprocal_rank_fusion: the scores dict and the returned list
reciprocal_rank_fusion(vector_results, keyword_results, k) ==
    LET scores == FusedScores(vector_results, keyword_results, k)
        order == SortedByScore(FirstSeen(vector_results \o keyword_results, {}), scores)
        chunk_map == ChunkMap(vector_results \o keyword_results)
    IN  [scores |-> scores, result |-> [i \in DOMAIN order |-> chunk_map[order[i]]]]

(***************************************************************************)
(* SpecFusion: _reciprocal_rank_fusion on every pair of a dense and a      *)
(* keyword list of up to MaxFused items; a chunk_id may stand in a list    *)
(* more than once, as it does in the index after a session was loaded      *)
(* twice.                                                                  *)
(***************************************************************************)
\* the items of a dense search: a chunk and its distance
DenseItems == {Item(SemanticChunk(id, Embedding(DefaultVectorDimension, id)), d) : id \in ChunkIds, d \in {0, 1}}

\* the items of a keyword search: a chunk and a positive BM25 score
KeywordItems == {Item(SemanticChunk(id, Embedding(DefaultVectorDimension, id)), 2) : id \in ChunkIds}

FusionInit ==
    /\ collections = [n \in CollectionNames |-> NoCollection]
    /\ StoreIdle
    /\ VSIdle
    /\ SysIdle
    /\ run = NoRun
    /\ expansion = NoExpansion
    /\ configured = NoConstruction
    /\ PureIdle
    /\ fusion \in {[pc |-> "called", vector_results |-> v, keyword_results |-> w, scores |-> <<>>, result |-> <<>>] :
                      v \in SeqsUpTo(DenseItems, MaxFused), w \in SeqsUpTo(KeywordItems, MaxFused)}

ReciprocalRankFusion ==
    /\ fusion.pc = "called"
    /\ LET r == reciprocal_rank_fusion(fusion.vector_results, fusion.keyword_results, FusionK)
       IN  fusion' = [fusion EXCEPT !.pc = "returned", !.scores = r.scores, !.result = r.result]
    /\ UNCHANGED <<collections, storeVars, vsVars, sysVars, run, expansion, configured, pureVars>>

FusionNext == ReciprocalRankFusion

SpecFusion == FusionInit /\ [][FusionNext]_vars

(***************************************************************************)
(* SimpleChunkingAdapter.chunk_document.  The content of a document is     *)
(* modelled by its length, a text without blanks at the cuts; a document   *)
(* is a record with the fields of WebDocumentContent, so that reading a    *)
(* field the class does not declare can be told from reading one it has.   *)
(***************************************************************************)
WebDocumentContent(url, content) == [url |-> url, content |-> content, crawl_datetime |-> 0, metadata |-> <<>>]

\* range(0, stop, step) for step > 0
RangeFromZero(stop, step) == [i \in 1..((stop + step - 1) \div step) |-> (i - 1) * step]

\* len(content[i : i + chunk_size])
WindowLength(content, i, chunk_size) == Min(chunk_size, content - i)

\* hashlib.md5(f"{url}_{i}_{chunk_text[:50]}"): the three things hashed
ChunkId(url, i, chunk_text) == <<url, i, Min(MinChunkLength, chunk_text)>>

\* the SemanticChunk of the window at offset i
WindowChunk(document, query, i, chunk_size) ==
    [chunk_id |-> ChunkId(document.url, i, WindowLength(document.content, i, chunk_size)),
     content |-> WindowLength(document.content, i, chunk_size),
     source_url |-> document.url,
     embedding |-> NoEmbedding,
     metadata |-> [position |-> i, query |-> query, parent_document_id |-> document.document_id,
                   updated_at |-> document.crawl_datetime]]

\* the offsets whose window is kept: len(chunk_text.strip()) >= 50
KeptOffsets(content, chunk_size, overlap) ==
    SelectSeq(RangeFromZero(content, chunk_size - overlap),
              LAMBDA i : WindowLength(content, i, chunk_size) >= MinChunkLength)

\* chunk_document: range() raises ValueError on a step of 0 and is empty for a
\* negative step; building the first chunk reads document.document_id, which
\* raises AttributeError on a document that has no such field
chunk_document(document, query, chunk_size, overlap) ==
    IF chunk_size - overlap = 0 THEN [chunks |-> <<>>, raised |-> "ValueError"]
    ELSE IF chunk_size - overlap < 0 THEN [chunks |-> <<>>, raised |-> "none"]
    ELSE LET kept == KeptOffsets(document.content, chunk_size, overlap)
         IN  IF kept # <<>> /\ "document_id" \notin DOMAIN document
             THEN [chunks |-> <<>>, raised |-> "AttributeError"]
             ELSE [chunks |-> [n \in DOMAIN kept |-> WindowChunk(document, query, kept[n], chunk_size)],
                   raised |-> "none"]

(***************************************************************************)
(* SpecConfig: WebSearchQASystem(config) and its first process_query for   *)
(* configurations that miss up to MaxMissing keys, with either search      *)
(* provider, either vector dimension and chunk sizes in any relation.      *)
(***************************************************************************)
\* the keys the code reads with config[...]
ConfigKeys == {"llm_model", "tavily_api_key", "google_api_key", "google_cx", "vector_dimension",
               "chunk_size", "chunk_overlap", "max_processing_time"}

\* (chunk_size, chunk_overlap): the default, the tests' (100, 20), an overlap
\* equal to the size and one above it
ChunkSettings == {<<DefaultChunkSize, DefaultChunkOverlap>>, <<100, 20>>, <<100, 100>>, <<100, 200>>}

Configs ==
    {[present |-> ConfigKeys \ missing, search_provider |-> p, vector_dimension |-> d,
      chunk_size |-> cs[1], chunk_overlap |-> cs[2]] :
        missing \in {m \in SUBSET ConfigKeys : Cardinality(m) <= MaxMissing},
        p \in {"tavily", "google"}, d \in Dims, cs \in ChunkSettings}

\* the keys build_pipeline reads, in the order it reads them: get_llm_service,
\* get_search_service, get_vector_store, get_chunking_service
KeysReadAtConstruction(config) ==
    <<"llm_model">>
    \o (IF config.search_provider = "google" THEN <<"google_api_key", "google_cx">> ELSE <<"tavily_api_key">>)
    \o <<"vector_dimension", "chunk_size", "chunk_overlap">>

\* WebSearchQASystem.__init__: config[key] raises KeyError for the first key
\* read that is missing; nothing else is checked
construct(config) ==
    LET missing == SelectSeq(KeysReadAtConstruction(config), LAMBDA key : key \notin config.present)
    IN  IF missing # <<>> THEN [raised |-> "KeyError", key |-> missing[1]]
        ELSE [raised |-> "none", key |-> ""]

\* a crawled body of the happy path's size
SampleDocument == WebDocumentContent("u", 1500)

\* the first process_query: config["max_processing_time"] is read when
\* wait_for is called; chunk_document works with the configured sizes; the
\* dense search of retrieve meets the index of the configured dimension with
\* the endpoint's query vector or with [0.1] * 1024.  The exception each of
\* them raises when the configuration does not fit:
query_time_errors(config, embed_ok) ==
    IF "max_processing_time" \notin config.present THEN {"KeyError"}
    ELSE (IF chunk_document(SampleDocument, UserQuery, config.chunk_size, config.chunk_overlap).raised = "ValueError"
          THEN {"ValueError"} ELSE {})
         \cup
         (IF QueryEmbedding(config.vector_dimension, embed_ok).len # config.vector_dimension
          THEN {"AssertionError"} ELSE {})

ConfigInit ==
    /\ collections = [n \in CollectionNames |-> NoCollection]
    /\ StoreIdle
    /\ VSIdle
    /\ SysIdle
    /\ run = NoRun
    /\ expansion = NoExpansion
    /\ fusion = NoFusion
    /\ PureIdle
    /\ configured \in {[pc |-> "given", config |-> c, raised |-> "none", key |-> "", query_errors |-> {}] : c \in Configs}

ConstructSystem ==
    /\ configured.pc = "given"
    /\ LET r == construct(configured.config)
       IN  configured' = [configured EXCEPT !.pc = IF r.raised = "none" THEN "built" ELSE "refused",
                                            !.raised = r.raised, !.key = r.key]
    /\ UNCHANGED <<collections, storeVars, vsVars, sysVars, run, expansion, fusion, pureVars>>

FirstQuery ==
    \E embed_ok \in BOOLEAN :
        /\ configured.pc = "built"
        /\ configured' = [configured EXCEPT !.pc = "queried",
                                            !.query_errors = query_time_errors(configured.config, embed_ok)]
        /\ UNCHANGED <<collections, storeVars, vsVars, sysVars, run, expansion, fusion, pureVars>>

ConfigNext == ConstructSystem \/ FirstQuery

SpecConfig == ConfigInit /\ [][ConfigNext]_vars

(***************************************************************************)
(* SpecRun: one process_query of a fresh session with the default          *)
(* configuration, stage by stage, with the state QAPipeline hands from     *)
(* stage to stage.  The LLM adapter, the chunker, the vector store and     *)
(* the retriever are the repository's; the search service and the crawler  *)
(* are any implementation of their interfaces (the pipeline does not       *)
(* check how many results a search returns).  URLs are numbers.  `errors`  *)
(* names the calls and stages the run reported as failed.  The deadline    *)
(* does not pass.                                                          *)
(***************************************************************************)
WebDocument(url) == [url |-> url]

\* the results of a search: m distinct URLs, the first d of them once more
UrlList(m, d) == [i \in 1..(m + d) |-> WebDocument(IF i <= m THEN i ELSE i - m)]

SearchFailure == [ok |-> FALSE, documents |-> <<>>]

SearchOutcomes ==
    {SearchFailure} \cup UNION {{[ok |-> TRUE, documents |-> UrlList(m, d)] : d \in 0..Min(m, MaxDup)} : m \in 0..MaxUrls}

\* the replies of the run's expansion: a failing call, or n numbered lines
NumberedLines(n) == [i \in 1..n |-> Line(FALSE, IF i = 1 THEN "1." ELSE IF i = 2 THEN "2." ELSE "3.", IF i % 2 = 1 THEN "x" ELSE "y")]

RunLLMOutcomes == {LLMFailure} \cup {LLMReply(NumberedLines(n)) : n \in 0..MaxLines}

\* the lengths of a crawled body: too short for a chunk, the happy path's
\* 1500 characters, and one window more
DocLengths == {40, 1500, 1650}

RECURSIVE Flatten(_)
Flatten(lists) == IF lists = <<>> THEN <<>> ELSE Head(lists) \o Flatten(Tail(lists))

\* search_web: one call per SearchQuery of the state, with its first
\* processed query and max_results=7
search_calls(search_queries) ==
    [i \in DOMAIN search_queries |->
        [query |-> search_queries[i].processed_queries[1], max_results |-> MaxResults]]

\* ... and the results that are lists, one after the other
all_documents(outcomes) ==
    Flatten([i \in DOMAIN outcomes |-> IF outcomes[i].ok THEN outcomes[i].documents ELSE <<>>])

\* {doc.url for doc in state["web_documents"]}
unique_urls(web_documents) == {web_documents[i].url : i \in DOMAIN web_documents}

\* crawl_documents without the cut to ten URLs
CutLength_uncut(n) == n

\* len(unique_urls[:10])
CutLength(n) == Min(CrawlLimit, n)

\* list(a set)[:10]: the order in which a set is iterated is not fixed, so
\* any ten of the URLs may be the first ten; the model lists them ascending
CrawlTargets(web_documents) ==
    LET urls == unique_urls(web_documents)
    IN  {Ascending(S) : S \in {T \in SUBSET urls : Cardinality(T) = CutLength(Cardinality(urls))}}

\* the contents that are WebDocumentContent: the crawls of `failed` returned
\* None or raised
successful_contents(targets, failed, length) ==
    LET kept == SelectSeq(targets, LAMBDA u : u \notin failed)
    IN  [i \in DOMAIN kept |-> WebDocumentContent(kept[i], length)]

\* chunk_documents: the chunks of the documents whose chunking returned a list
all_chunks(document_contents, chunk_size, overlap) ==
    Flatten([i \in DOMAIN document_contents |->
                LET r == chunk_document(document_contents[i], UserQuery, chunk_size, overlap)
                IN  IF r.raised = "none" THEN r.chunks ELSE <<>>])

chunking_failed(document_contents, chunk_size, overlap) ==
    \E i \in DOMAIN document_contents :
        chunk_document(document_contents[i], UserQuery, chunk_size, overlap).raised # "none"

\* _bm25_search: nothing for a store without chunks; else the chunks with a
\* positive score, here the ones at the positions `scored`
bm25_search_scored(chunks, scored) ==
    IF chunks = <<>> THEN <<>> ELSE [i \in DOMAIN scored |-> Item(chunks[scored[i]], 1)]

\* retrieve: dense search, keyword search, fusion, the first k chunks
retrieve_scored(vs, query_embedding, k, scored, zero_k_raises) ==
    LET dense == search(vs, query_embedding, k, zero_k_raises)
        vector_results == [i \in DOMAIN dense.results |-> Item(dense.results[i], i)]
        combined == reciprocal_rank_fusion(vector_results, bm25_search_scored(vs.chunks, scored), FusionK).result
    IN  IF dense.raised THEN [chunks |-> <<>>, raised |-> TRUE]
        ELSE [chunks |-> [i \in 1..Min(k, Len(combined)) |-> combined[i].chunk], raised |-> FALSE]

\* rerank on the chunks of the run: the content of a chunk is a text without
\* blanks that is not a word of the query, so every chunk has the relevance
\* 0.0, the stable sort keeps the order and the first k chunks stay
rerank_equal_scores(chunks, k) == SubSeq(chunks, 1, Min(k, Len(chunks)))

NoResponse == [answer |-> "", sources |-> <<>>]

RunSession == "a"

RunInit ==
    /\ collections = [n \in CollectionNames |-> NoCollection]
    /\ StoreIdle
    /\ VSIdle
    /\ SysIdle
    /\ expansion = NoExpansion
    /\ configured = NoConstruction
    /\ fusion = NoFusion
    /\ PureIdle
    /\ run = [pc |-> "generate_queries", search_queries |-> <<>>, search_calls |-> <<>>,
              web_documents |-> <<>>, crawl_calls |-> <<>>, document_contents |-> <<>>,
              chunks |-> <<>>, vs |-> FAISSVectorStore(DefaultVectorDimension), scratch_pad |-> <<>>,
              response |-> NoResponse, errors |-> {}, result |-> NoResult]

RunGenerateQueries ==
    \E llm \in RunLLMOutcomes :
        /\ run.pc = "generate_queries"
        /\ run' = [run EXCEPT !.pc = "search_web",
                              !.search_queries = generate_queries(UserQuery, llm).queries,
                              !.errors = IF llm.ok THEN @ ELSE @ \cup {"generate_queries"}]
        /\ UNCHANGED <<collections, storeVars, vsVars, sysVars, expansion, configured, fusion, pureVars>>

RunSearchWeb ==
    \E outcome \in SearchOutcomes :
        /\ run.pc = "search_web"
        /\ run' = [run EXCEPT !.pc = "crawl_documents",
                              !.search_calls = search_calls(run.search_queries),
                              !.web_documents = all_documents([i \in DOMAIN run.search_queries |-> outcome]),
                              !.errors = IF outcome.ok THEN @ ELSE @ \cup {"search_web"}]
        /\ UNCHANGED <<collections, storeVars, vsVars, sysVars, expansion, configured, fusion, pureVars>>

RunCrawlDocuments ==
    \E targets \in CrawlTargets(run.web_documents), length \in DocLengths :
        \E failed \in {{}, IF targets = <<>> THEN {} ELSE {Head(targets)}, Range(targets)} :
            /\ run.pc = "crawl_documents"
            /\ run' = [run EXCEPT !.pc = "chunk_documents",
                                  !.crawl_calls = targets,
                                  !.document_contents = successful_contents(targets, failed, length),
                                  !.errors = IF failed = {} THEN @ ELSE @ \cup {"crawl_documents"}]
            /\ UNCHANGED <<collections, storeVars, vsVars, sysVars, expansion, configured, fusion, pureVars>>

RunChunkDocuments ==
    /\ run.pc = "chunk_documents"
    /\ run' = [run EXCEPT !.pc = "store_vectors",
                          !.chunks = all_chunks(run.document_contents, DefaultChunkSize, DefaultChunkOverlap),
                          !.errors = IF chunking_failed(run.document_contents, DefaultChunkSize, DefaultChunkOverlap)
                                     THEN @ \cup {"chunk_documents"} ELSE @]
    /\ UNCHANGED <<collections, storeVars, vsVars, sysVars, expansion, configured, fusion, pureVars>>

\* process_query's except clause after an exception left the pipeline
RunFails(stage, logged) ==
    run' = [run EXCEPT !.pc = "returned",
                       !.errors = @ \cup logged \cup {stage},
                       !.result = process_query_except([type |-> "AssertionError", message |-> <<>>])]

RunStoreVectors ==
    \E embed_ok \in BOOLEAN :
        /\ run.pc = "store_vectors"
        /\ IF run.chunks = <<>>
           THEN run' = [run EXCEPT !.pc = "retrieve_chunks"]
           ELSE LET chunks == Embedded(run.chunks, DefaultVectorDimension, embed_ok)
                    r == add_chunks(run.vs, chunks)
                IN  IF r.raised THEN RunFails("store_vectors", IF embed_ok THEN {} ELSE {"get_embeddings"})
                    ELSE run' = [run EXCEPT !.pc = "retrieve_chunks", !.chunks = chunks, !.vs = r.store,
                                            !.errors = IF embed_ok THEN @ ELSE @ \cup {"get_embeddings"}]
        /\ UNCHANGED <<collections, storeVars, vsVars, sysVars, expansion, configured, fusion, pureVars>>

RunRetrieveChunks ==
    \E embed_ok \in BOOLEAN, zero_k_raises \in BOOLEAN :
        \E scored \in {<<>>, [i \in DOMAIN run.vs.chunks |-> i]} :
            /\ run.pc = "retrieve_chunks"
            /\ LET r == retrieve_scored(run.vs, QueryEmbedding(DefaultVectorDimension, embed_ok), RetrieveK, scored, zero_k_raises)
               IN  IF r.raised THEN RunFails("retrieve_chunks", IF embed_ok THEN {} ELSE {"get_embeddings"})
                   ELSE run' = [run EXCEPT !.pc = "generate_answer",
                                           !.scratch_pad = rerank_equal_scores(r.chunks, RerankK),
                                           !.errors = IF embed_ok THEN @ ELSE @ \cup {"get_embeddings"}]
            /\ UNCHANGED <<collections, storeVars, vsVars, sysVars, expansion, configured, fusion, pureVars>>

\* generate_answer: the LLM's text, or the adapter's apology when its call
\* fails; the sources are the URLs of the scratch pad's chunks
RunGenerateAnswer ==
    \E llm_ok \in BOOLEAN :
        /\ run.pc = "generate_answer"
        /\ run' = [run EXCEPT !.pc = "save",
                              !.response = [answer |-> IF llm_ok THEN "answer" ELSE "apology",
                                            sources |-> [i \in DOMAIN run.scratch_pad |-> run.scratch_pad[i].source_url]],
                              !.errors = IF llm_ok THEN @ ELSE @ \cup {"generate_answer"}]
        /\ UNCHANGED <<collections, storeVars, vsVars, sysVars, expansion, configured, fusion, pureVars>>

\* process_query after wait_for: _save_session_data, then the success dict
RunSaveSessionData ==
    \E ok \in BOOLEAN :
        /\ run.pc = "save"
        /\ collections' = save_session_data(collections, collection_name(RunSession), run.vs, ok).collections
        /\ run' = [run EXCEPT !.pc = "returned", !.result = SuccessResult]
        /\ UNCHANGED <<storeVars, vsVars, sysVars, expansion, configured, fusion, pureVars>>

RunNext ==
    \/ RunGenerateQueries
    \/ RunSearchWeb
    \/ RunCrawlDocuments
    \/ RunChunkDocuments
    \/ RunStoreVectors
    \/ RunRetrieveChunks
    \/ RunGenerateAnswer
    \/ RunSaveSessionData

SpecRun == RunInit /\ [][RunNext]_vars

(***************************************************************************)
(* SpecTokenize: the tokeniser of the BM25 search, _tokenize(text.lower()), *)
(* on every text of up to MaxText characters.  A text is a sequence of     *)
(* characters; the characters stand for their kinds: an upper-case and a   *)
(* lower-case ASCII letter, a digit, a Hangul syllable ("ga"), a           *)
(* punctuation mark, a blank, and the Kelvin sign U+212A ("KELVIN"), a     *)
(* letter outside ASCII whose lower case is the ASCII letter k.            *)
(***************************************************************************)
Characters == {"A", "b", "7", "ga", ",", " ", "KELVIN"}

\* str.lower() of one character
lower_char(c) == IF c = "A" THEN "a" ELSE IF c = "KELVIN" THEN "k" ELSE c

\* str.lower()
str_lower(text) == [i \in DOMAIN text |-> lower_char(text[i])]

\* the class [a-zA-Z0-9가-힣] on the characters of the model and their lower cases
WordClass == {"A", "a", "b", "k", "7", "ga"}

\* _tokenize keeping tokens of any length
LongEnough_any(token) == TRUE

\* len(token) >= 2
LongEnough(token) == Len(token) >= MinTokenLength

\* re.findall(r'[a-zA-Z0-9가-힣]+', text): a scan from the left that extends
\* the run in hand (current) while characters of the class come and emits it
\* at the first other character or at the end
RECURSIVE findall(_, _)
findall(text, current) ==
    IF text = <<>> THEN (IF current = <<>> THEN <<>> ELSE <<current>>)
    ELSE IF Head(text) \in WordClass THEN findall(Tail(text), Append(current, Head(text)))
    ELSE (IF current = <<>> THEN <<>> ELSE <<current>>) \o findall(Tail(text), <<>>)

\* _tokenize
tokenize(text) == SelectSeq(findall(text, <<>>), LongEnough)

\* the tokens _bm25_search works with: self._tokenize(query.lower())
bm25_tokens(text) == tokenize(str_lower(text))

Texts == SeqsUpTo(Characters, MaxText)

TokenizeInit ==
    /\ collections = [n \in CollectionNames |-> NoCollection]
    /\ StoreIdle
    /\ VSIdle
    /\ SysIdle
    /\ run = NoRun
    /\ expansion = NoExpansion
    /\ configured = NoConstruction
    /\ fusion = NoFusion
    /\ LateIdle
    /\ chunking = NoChunking
    /\ reranking = NoReranking
    /\ container = NoContainer
    /\ pool = NoPool
    /\ tokens \in {[pc |-> "called", text |-> t, returned |-> <<>>] : t \in Texts}

Tokenize ==
    /\ tokens.pc = "called"
    /\ tokens' = [tokens EXCEPT !.pc = "returned", !.returned = bm25_tokens(tokens.text)]
    /\ UNCHANGED <<collections, storeVars, vsVars, sysVars, runVars, chunking, reranking, container, pool, lateVars>>

TokenizeNext == Tokenize

SpecTokenize == TokenizeInit /\ [][TokenizeNext]_vars

(***************************************************************************)
(* SpecChunker: one document chunked twice, by either chunking adapter,    *)
(* with either query, at either crawl time and with any replies of the     *)
(* LLM to the context prompts.  The context replies are told apart by      *)
(* kind: a context text, a blank text, an exception of the LLM service,    *)
(* and the apology VLLMAdapter.generate_answer returns when its call       *)
(* fails.                                                                  *)
(***************************************************************************)
ReplyKinds == {"context", "blank", "raised", "apology"}

\* the reply to the prompt of the n-th raw chunk
ReplyTo(replies, n) == replies[((n - 1) % Len(replies)) + 1]

\* gather(..., return_exceptions=True) and the loop over its results: an
\* exception becomes the empty response
contextual_response(reply) == IF reply = "raised" THEN "blank" ELSE reply

\* what the f-string puts between the context and the raw passage: its
\* source text is \\n\\n, and an escaped backslash followed by n is the two
\* characters backslash and n, so the separator has four characters, none
\* of them a newline
ContextSeparator == "\\n\\n"

\* the content of a contextual chunk: the response, the separator and the
\* raw passage when the stripped response is not empty, else the raw
\* passage alone
contextual_content(response, text) == IF response # "blank" THEN <<response, ContextSeparator, text>> ELSE <<text>>

\* the SemanticChunk _add_context_to_chunks builds for the raw chunk at offset i
ContextualChunk(document, query, i, chunk_size, reply) ==
    LET text == WindowLength(document.content, i, chunk_size)
    IN  [chunk_id |-> ChunkId(document.url, i, text),
         content |-> contextual_content(contextual_response(reply), text),
         source_url |-> document.url,
         embedding |-> NoEmbedding,
         metadata |-> [position |-> i, query |-> query, original_content |-> text,
                       contextual_retrieval |-> TRUE,
                       parent_document_id |-> document.document_id,
                       updated_at |-> document.crawl_datetime]]

\* ContextualChunkingAdapter.chunk_document: _create_raw_chunks cuts the
\* same windows as the simple adapter; no raw chunk, no chunk; else every
\* raw chunk gets its context and the first SemanticChunk built reads
\* document.document_id
contextual_chunk_document(document, query, chunk_size, overlap, replies) ==
    IF chunk_size - overlap = 0 THEN [chunks |-> <<>>, raised |-> "ValueError"]
    ELSE IF chunk_size - overlap < 0 THEN [chunks |-> <<>>, raised |-> "none"]
    ELSE LET raw == KeptOffsets(document.content, chunk_size, overlap)
         IN  IF raw # <<>> /\ "document_id" \notin DOMAIN document
             THEN [chunks |-> <<>>, raised |-> "AttributeError"]
             ELSE [chunks |-> [n \in DOMAIN raw |->
                                 ContextualChunk(document, query, raw[n], chunk_size, ReplyTo(replies, n))],
                   raised |-> "none"]

\* the chunking service the container builds for config["chunking_strategy"]
chunking_service(strategy, document, query, chunk_size, overlap, replies) ==
    IF strategy = "contextual"
    THEN contextual_chunk_document(document, query, chunk_size, overlap, replies)
    ELSE chunk_document(document, query, chunk_size, overlap)

\* lengths of a document around the least chunk length and around the
\* steps of the window, and the happy path's 1500
Lengths == {0, 40, 50, 51, 130, 131, 210, 1500}

\* chunk_size and chunk_overlap: the defaults, the tests', a window
\* shorter than the least chunk length, a window without overlap
ChunkerSettings == {<<DefaultChunkSize, DefaultChunkOverlap>>, <<100, 20>>, <<40, 0>>, <<60, 0>>, <<100, 100>>, <<100, 200>>}

Queries == {UserQuery, "other query"}

CrawlTimes == {0, 1}

ChunkCalls ==
    {[strategy |-> s, query |-> q, crawl_datetime |-> t, replies |-> r] :
        s \in {"simple", "contextual"}, q \in Queries, t \in CrawlTimes,
        r \in [1..MaxReplies -> ReplyKinds]}

\* the first chunking: the user's query, the first crawl, contexts for all
FirstChunkCalls ==
    {c \in ChunkCalls : c.query = UserQuery /\ c.crawl_datetime = 0 /\ \A n \in DOMAIN c.replies : c.replies[n] = "context"}

NotChunked == [chunks |-> <<>>, raised |-> "none"]

ChunkerInit ==
    /\ collections = [n \in CollectionNames |-> NoCollection]
    /\ StoreIdle
    /\ VSIdle
    /\ SysIdle
    /\ run = NoRun
    /\ expansion = NoExpansion
    /\ configured = NoConstruction
    /\ fusion = NoFusion
    /\ LateIdle
    /\ tokens = NoTokens
    /\ reranking = NoReranking
    /\ container = NoContainer
    /\ pool = NoPool
    /\ chunking \in {[pc |-> "crawled", url |-> "u", content |-> l, chunk_size |-> cs[1], overlap |-> cs[2],
                      first |-> a, again |-> b, first_result |-> NotChunked, again_result |-> NotChunked] :
                        l \in Lengths, cs \in ChunkerSettings, a \in FirstChunkCalls, b \in ChunkCalls}

\* chunk_document(document, query) of the configured service on the document as crawled at c.crawl_datetime
Chunked(c) ==
    chunking_service(c.strategy, [WebDocumentContent(chunking.url, chunking.content) EXCEPT !.crawl_datetime = c.crawl_datetime],
                     c.query, chunking.chunk_size, chunking.overlap, c.replies)

ChunkDocument ==
    /\ chunking.pc = "crawled"
    /\ chunking' = [chunking EXCEPT !.pc = "chunked", !.first_result = Chunked(chunking.first)]
    /\ UNCHANGED <<collections, storeVars, vsVars, sysVars, runVars, tokens, reranking, container, pool, lateVars>>

ChunkDocumentAgain ==
    /\ chunking.pc = "chunked"
    /\ chunking' = [chunking EXCEPT !.pc = "rechunked", !.again_result = Chunked(chunking.again)]
    /\ UNCHANGED <<collections, storeVars, vsVars, sysVars, runVars, tokens, reranking, container, pool, lateVars>>

ChunkerNext == ChunkDocument \/ ChunkDocumentAgain

SpecChunker == ChunkerInit /\ [][ChunkerNext]_vars

(***************************************************************************)
(* SpecRerank: rerank on up to MaxReranked chunks and the answer stage on  *)
(* its result.  A query and a content are modelled by the set of their     *)
(* lower-cased words, set(text.lower().split()); a relevance is the exact  *)
(* fraction <<overlap, number of query terms>>.  The chunk at position i   *)
(* has the id i; the chunks come from two URLs in turn.                    *)
(***************************************************************************)
Terms == {"t1", "t2"}

ContentTerms == {{}, {"t1"}, {"t1", "t2"}}

\* _calculate_relevance: 0.0 for a query without terms, else the share of
\* the query's terms that the content holds
calculate_relevance(query_terms, content_terms) ==
    IF query_terms = {} THEN <<0, 1>>
    ELSE <<Cardinality(query_terms \cap content_terms), Cardinality(query_terms)>>

\* a sort that puts the lower score first
AtLeast_reversed(a, b) == a[1] * b[2] <= b[1] * a[2]

\* a >= b for two fractions
AtLeast(a, b) == a[1] * b[2] >= b[1] * a[2]

\* scored_chunks.sort(key=score, reverse=True): a stable sort, so of the
\* pairs with the best score the first one comes first
RECURSIVE sort_by_score(_)
sort_by_score(scored) ==
    IF scored = <<>> THEN <<>>
    ELSE LET best == CHOOSE i \in DOMAIN scored :
                         /\ \A j \in DOMAIN scored : AtLeast(scored[i].score, scored[j].score)
                         /\ \A j \in 1..(i - 1) : ~AtLeast(scored[j].score, scored[i].score)
             rest == [j \in 1..(Len(scored) - 1) |-> IF j < best THEN scored[j] ELSE scored[j + 1]]
         IN  <<scored[best]>> \o sort_by_score(rest)

\* a slice that keeps the whole list
FirstK_uncut(scored, k) == scored

\* scored_chunks[:k] for k >= 0
FirstK(scored, k) == SubSeq(scored, 1, Min(k, Len(scored)))

\* rerank
rerank(query_terms, chunks, k) ==
    LET scored_chunks == [i \in DOMAIN chunks |->
                             [chunk |-> chunks[i], score |-> calculate_relevance(query_terms, chunks[i].content)]]
        kept == FirstK(sort_by_score(scored_chunks), k)
    IN  [chunks |-> [i \in DOMAIN kept |-> kept[i].chunk],
         scores |-> [i \in DOMAIN kept |-> kept[i].score]]

\* the sources of an answer that names every URL once
sources_deduplicated(chunks) ==
    LET firsts == SelectSeq([i \in DOMAIN chunks |-> i],
                            LAMBDA i : \A j \in 1..(i - 1) : chunks[j].source_url # chunks[i].source_url)
    IN  [n \in DOMAIN firsts |-> chunks[firsts[n]].source_url]

\* [chunk.source_url for chunk in state["scratch_pad"].chunks]
sources_of(chunks) == [i \in DOMAIN chunks |-> chunks[i].source_url]

\* the chunks handed to rerank: ids 1..n, the URLs "u1" and "u2" in turn
RetrievedChunks ==
    UNION {{[i \in 1..n |-> [chunk_id |-> i, content |-> c[i], source_url |-> IF i % 2 = 1 THEN "u1" ELSE "u2"]] :
                c \in [1..n -> ContentTerms]} : n \in 0..MaxReranked}

RerankInit ==
    /\ collections = [n \in CollectionNames |-> NoCollection]
    /\ StoreIdle
    /\ VSIdle
    /\ SysIdle
    /\ run = NoRun
    /\ expansion = NoExpansion
    /\ configured = NoConstruction
    /\ fusion = NoFusion
    /\ LateIdle
    /\ tokens = NoTokens
    /\ chunking = NoChunking
    /\ container = NoContainer
    /\ pool = NoPool
    /\ reranking \in {[pc |-> "retrieved", query |-> q, chunks |-> cs, k |-> k,
                       scratch_pad |-> [chunks |-> <<>>, scores |-> <<>>], sources |-> <<>>] :
                         q \in SUBSET Terms, cs \in RetrievedChunks, k \in {0, 2, RerankK}}

Rerank ==
    /\ reranking.pc = "retrieved"
    /\ reranking' = [reranking EXCEPT !.pc = "reranked",
                                      !.scratch_pad = rerank(reranking.query, reranking.chunks, reranking.k)]
    /\ UNCHANGED <<collections, storeVars, vsVars, sysVars, runVars, tokens, chunking, container, pool, lateVars>>

\* generate_answer after retrieve_chunks, whose rerank call has k=5
AnswerFromScratchPad ==
    /\ reranking.pc = "reranked"
    /\ reranking.k = RerankK
    /\ reranking' = [reranking EXCEPT !.pc = "answered", !.sources = sources_of(reranking.scratch_pad.chunks)]
    /\ UNCHANGED <<collections, storeVars, vsVars, sysVars, runVars, tokens, chunking, container, pool, lateVars>>

RerankNext == Rerank \/ AnswerFromScratchPad

SpecRerank == RerankInit /\ [][RerankNext]_vars

(***************************************************************************)
(* SpecContainer: a DependencyContainer, the objects it created (heap: an  *)
(* object is its position in the heap, 0 is no object), the system built   *)
(* on it and the process_query calls of that system, with getter calls     *)
(* from outside (as the tests make them) at any time.  An object records   *)
(* which service it is and the vector store and LLM service it was built   *)
(* with.                                                                   *)
(***************************************************************************)
ServiceNames ==
    {"llm_service", "search_service", "crawling_service", "vector_store", "persistent_store",
     "chunking_service", "retrieval_service", "reranking_service"}

\* a getter that builds a new instance on every call
Cached_never(instances, name) == FALSE

\* `if name not in self._instances`
Cached(instances, name) == instances[name] # 0

\* self._instances[name] = Service(...)
allocate(c, name, vector_store_ref, llm_service_ref) ==
    LET object == [service |-> name, vector_store |-> vector_store_ref, llm_service |-> llm_service_ref]
    IN  [container |-> [c EXCEPT !.heap = Append(@, object), !.instances[name] = Len(c.heap) + 1],
         instance |-> Len(c.heap) + 1]

\* the getters of the services that are built from the configuration alone
get_plain(c, name) ==
    IF Cached(c.instances, name) THEN [container |-> c, instance |-> c.instances[name]]
    ELSE allocate(c, name, 0, 0)

\* the getters: get_retrieval_service builds the adapter on
\* get_vector_store() and get_llm_service(), get_chunking_service builds
\* the contextual adapter on get_llm_service()
get_service(c, name) ==
    IF Cached(c.instances, name) THEN [container |-> c, instance |-> c.instances[name]]
    ELSE IF name = "retrieval_service"
    THEN LET v == get_plain(c, "vector_store")
             l == get_plain(v.container, "llm_service")
         IN  allocate(l.container, name, v.instance, l.instance)
    ELSE IF name = "chunking_service" /\ c.strategy = "contextual"
    THEN LET l == get_plain(c, "llm_service")
         IN  allocate(l.container, name, 0, l.instance)
    ELSE allocate(c, name, 0, 0)

NoPipeline == [llm_service |-> 0, search_service |-> 0, crawling_service |-> 0, vector_store |-> 0,
               chunking_service |-> 0, retrieval_service |-> 0, reranking_service |-> 0]

\* build_pipeline: the seven getters in the order of the keyword arguments
build_pipeline(c) ==
    LET llm == get_service(c, "llm_service")
        sea == get_service(llm.container, "search_service")
        cra == get_service(sea.container, "crawling_service")
        vec == get_service(cra.container, "vector_store")
        chu == get_service(vec.container, "chunking_service")
        ret == get_service(chu.container, "retrieval_service")
        rer == get_service(ret.container, "reranking_service")
    IN  [container |-> rer.container,
         pipeline |-> [llm_service |-> llm.instance, search_service |-> sea.instance,
                       crawling_service |-> cra.instance, vector_store |-> vec.instance,
                       chunking_service |-> chu.instance, retrieval_service |-> ret.instance,
                       reranking_service |-> rer.instance]]

ContainerInit ==
    /\ collections = [n \in CollectionNames |-> NoCollection]
    /\ StoreIdle
    /\ VSIdle
    /\ SysIdle
    /\ run = NoRun
    /\ expansion = NoExpansion
    /\ configured = NoConstruction
    /\ fusion = NoFusion
    /\ LateIdle
    /\ tokens = NoTokens
    /\ chunking = NoChunking
    /\ reranking = NoReranking
    /\ pool = NoPool
    /\ container \in {[pc |-> "constructed", strategy |-> st, instances |-> [n \in ServiceNames |-> 0],
                       heap |-> <<>>, got |-> <<>>, pipeline |-> NoPipeline, persistent_store |-> 0,
                       loaded_into |-> {}, stored_into |-> {}, searched |-> {}, saved_from |-> {}, calls |-> 0] :
                         st \in {"simple", "contextual"}}

\* a getter called from outside
GetService ==
    \E name \in ServiceNames :
        /\ container.pc # "none"
        /\ Len(container.got) < MaxGets
        /\ LET r == get_service(container, name)
           IN  container' = [r.container EXCEPT !.got = Append(@, [name |-> name, instance |-> r.instance])]
        /\ UNCHANGED <<collections, storeVars, vsVars, sysVars, runVars, tokens, chunking, reranking, pool, lateVars>>

\* WebSearchQASystem.__init__: build_pipeline, then get_persistent_store
BuildSystem ==
    /\ container.pc = "constructed"
    /\ LET b == build_pipeline(container)
           p == get_service(b.container, "persistent_store")
       IN  container' = [p.container EXCEPT !.pc = "built", !.pipeline = b.pipeline, !.persistent_store = p.instance]
    /\ UNCHANGED <<collections, storeVars, vsVars, sysVars, runVars, tokens, chunking, reranking, pool, lateVars>>

\* process_query: _load_session_data adds to container.get_vector_store(),
\* the store stage adds to the pipeline's vector store, the retriever
\* searches its own, _save_session_data reads container.get_vector_store()
ProcessQuery ==
    /\ container.pc = "built"
    /\ container.calls < MaxCalls
    /\ LET l == get_service(container, "vector_store")
           s == get_service(l.container, "vector_store")
       IN  container' = [s.container EXCEPT
                            !.calls = @ + 1,
                            !.loaded_into = @ \cup {l.instance},
                            !.stored_into = @ \cup {container.pipeline.vector_store},
                            !.searched = @ \cup {container.heap[container.pipeline.retrieval_service].vector_store},
                            !.saved_from = @ \cup {s.instance}]
    /\ UNCHANGED <<collections, storeVars, vsVars, sysVars, runVars, tokens, chunking, reranking, pool, lateVars>>

ContainerNext == GetService \/ BuildSystem \/ ProcessQuery

SpecContainer == ContainerInit /\ [][ContainerNext]_vars

(***************************************************************************)
(* SpecPool: the tasks of one chunk_documents stage.  gather starts a      *)
(* task per document; a task enters `async with semaphore`, runs           *)
(* chunk_document and leaves the block when that returns or raises.  A     *)
(* task that finds no permit waits; which waiting task gets a freed        *)
(* permit is left open.  The deadline of process_query cancels the stage   *)
(* and with it every task.                                                 *)
(***************************************************************************)
\* the values of MAX_CONCURRENT_CHUNKS: Semaphore(n) raises ValueError for n < 0
Permits == (-1)..MaxPermits

\* a semaphore that lets every task in
Free_always(value) == TRUE

\* Semaphore.acquire returns at once when the value is positive
Free(value) == value > 0

\* a block that keeps its permit when it is left
release_keeping(value) == value

\* leaving `async with semaphore`, by return or by exception, releases
release(value) == value + 1

TasksIn(state) == {t \in DOMAIN pool.task : pool.task[t] = state}

PoolInit ==
    /\ collections = [n \in CollectionNames |-> NoCollection]
    /\ StoreIdle
    /\ VSIdle
    /\ SysIdle
    /\ run = NoRun
    /\ expansion = NoExpansion
    /\ configured = NoConstruction
    /\ fusion = NoFusion
    /\ LateIdle
    /\ tokens = NoTokens
    /\ chunking = NoChunking
    /\ reranking = NoReranking
    /\ container = NoContainer
    /\ pool \in {[pc |-> "chunk_documents", documents |-> n, max_concurrent_chunks |-> m, value |-> 0,
                  task |-> <<>>, peak |-> 0] : n \in 0..MaxDocs, m \in Permits \cup {DefaultConcurrentChunks}}

\* chunk_documents up to gather: no document, no task; else the semaphore
\* and a task per document
StartChunking ==
    /\ pool.pc = "chunk_documents"
    /\ pool' = IF pool.documents = 0 THEN [pool EXCEPT !.pc = "returned"]
               ELSE IF pool.max_concurrent_chunks < 0 THEN [pool EXCEPT !.pc = "raised"]
               ELSE [pool EXCEPT !.pc = "gather", !.value = pool.max_concurrent_chunks,
                                 !.task = [t \in 1..pool.documents |-> "waiting"]]
    /\ UNCHANGED <<collections, storeVars, vsVars, sysVars, runVars, tokens, chunking, reranking, container, lateVars>>

\* a task enters the block and calls chunk_document
Acquire(t) ==
    /\ pool.pc = "gather"
    /\ pool.task[t] = "waiting"
    /\ Free(pool.value)
    /\ pool' = [pool EXCEPT !.value = @ - 1, !.task[t] = "chunking",
                            !.peak = IF Cardinality(TasksIn("chunking")) + 1 > @ THEN Cardinality(TasksIn("chunking")) + 1 ELSE @]
    /\ UNCHANGED <<collections, storeVars, vsVars, sysVars, runVars, tokens, chunking, reranking, container, lateVars>>

\* chunk_document returns or raises and the task leaves the block
Release(t) ==
    /\ pool.pc = "gather"
    /\ pool.task[t] = "chunking"
    /\ pool' = [pool EXCEPT !.value = release(@), !.task[t] = "done"]
    /\ UNCHANGED <<collections, storeVars, vsVars, sysVars, runVars, tokens, chunking, reranking, container, lateVars>>

\* gather returns when every task is done
Gathered ==
    /\ pool.pc = "gather"
    /\ TasksIn("done") = DOMAIN pool.task
    /\ pool' = [pool EXCEPT !.pc = "returned"]
    /\ UNCHANGED <<collections, storeVars, vsVars, sysVars, runVars, tokens, chunking, reranking, container, lateVars>>

\* wait_for's deadline: every task that is not done is cancelled; the ones
\* inside the block give their permit back
Cancelled ==
    /\ pool.pc = "gather"
    /\ pool' = [pool EXCEPT !.pc = "cancelled",
                            !.value = @ + Cardinality(TasksIn("chunking")),
                            !.task = [t \in DOMAIN pool.task |-> IF pool.task[t] = "done" THEN "done" ELSE "cancelled"]]
    /\ UNCHANGED <<collections, storeVars, vsVars, sysVars, runVars, tokens, chunking, reranking, container, lateVars>>

PoolNext ==
    \/ StartChunking
    \/ \E t \in DOMAIN pool.task : Acquire(t)
    \/ \E t \in DOMAIN pool.task : Release(t)
    \/ Gathered
    \/ Cancelled

SpecPool == PoolInit /\ [][PoolNext]_vars

\* SpecPoolFair: a stage the deadline does not cut short, on an event loop
\* that runs every task that can run, every chunk_document call coming back
PoolRunNext ==
    \/ StartChunking
    \/ \E t \in DOMAIN pool.task : Acquire(t)
    \/ \E t \in DOMAIN pool.task : Release(t)
    \/ Gathered

SpecPoolFair ==
    /\ PoolInit
    /\ [][PoolRunNext]_vars
    /\ WF_vars(StartChunking)
    /\ \A t \in 1..(MaxDocs + 1) : WF_vars(t \in DOMAIN pool.task /\ Acquire(t))
    /\ \A t \in 1..(MaxDocs + 1) : WF_vars(t \in DOMAIN pool.task /\ Release(t))
    /\ WF_vars(Gathered)

(***************************************************************************)
(* SpecRetrieve: HybridRetrievalAdapter.retrieve and its _bm25_search on a *)
(* vector store.  A chunk carries, next to its id and embedding, its       *)
(* content as the token list _tokenize(content.lower()) makes of it; the   *)
(* query is its token list.  A BM25 score is kept as a fraction            *)
(* <<numerator, denominator>> with a positive denominator.  math.log(x) is *)
(* replaced by 2 (x - 1) / (x + 1), which is rational, has the sign of     *)
(* log(x) and grows with x as it does; log raises for x <= 0.              *)
(***************************************************************************)
StoredChunk(id, content, d) == [chunk_id |-> id, embedding |-> Embedding(d, id), content |-> content]

\* the chunks a store may hold: one query term, a term twice and another,
\* other terms, no token at all
StoredChunks(d) ==
    {StoredChunk("c1", <<"t1">>, d), StoredChunk("c2", <<"t1", "t1", "t2">>, d),
     StoredChunk("c3", <<"t3", "t4">>, d), StoredChunk("c4", <<>>, d)}

QueryTokens == {<<>>, <<"t1">>, <<"t2">>, <<"t2", "t1">>, <<"t2", "t3">>, <<"t1", "t1">>, <<"t5">>}

\* Counter(tokens)[token]
Occurrences(doc_tokens, token) == Cardinality({i \in DOMAIN doc_tokens : doc_tokens[i] = token})

\* df[token]: the loops add 1 for every document holding the token and for
\* every place the token has in query_tokens
DocumentFrequency(documents, query_tokens, token) ==
    Cardinality({i \in DOMAIN documents : Occurrences(documents[i], token) > 0}) * Occurrences(query_tokens, token)

\* math.log((N - df + 0.5) / (df + 0.5)) raises ValueError when its
\* argument is not positive; the line is reached for a token some document
\* holds
LogRaises(N, df) == df > 0 /\ 2 * N - 2 * df + 1 <= 0

RECURSIVE GCD(_, _)
GCD(a, b) == IF b = 0 THEN a ELSE GCD(b, a % b)

\* a fraction in lowest terms
Reduced(a) ==
    LET g == GCD(IF a[1] < 0 THEN -a[1] ELSE a[1], a[2])
    IN  <<a[1] \div g, a[2] \div g>>

FracAdd(a, b) == Reduced(<<a[1] * b[2] + b[1] * a[2], a[2] * b[2]>>)

\* idf * tf * (k1 + 1) / (tf + k1 * (1 - b + b * doc_len / avgdl)) with
\* k1 = 1.2, b = 0.75, avgdl = total_len / N and
\* idf = 2 (x - 1) / (x + 1) = (2 N - 4 df) / (N + 1) for the log's argument x:
\* (2 N - 4 df) tf 22 total_len / ((N + 1) (10 tf total_len + 3 total_len + 9 doc_len N)),
\* kept in units of 22 total_len / (N + 1), which is positive and the same
\* for every chunk of a call
bm25_term(tf, doc_len, total_len, N, df) ==
    Reduced(<<(2 * N - 4 * df) * tf, 10 * tf * total_len + 3 * total_len + 9 * doc_len * N>>)

RECURSIVE SumLengths(_)
SumLengths(documents) == IF documents = <<>> THEN 0 ELSE Len(Head(documents)) + SumLengths(Tail(documents))

\* the inner loop: one term for every query token the document holds
RECURSIVE bm25_score(_, _, _, _)
bm25_score(doc_tokens, query_tokens, documents, all_query_tokens) ==
    IF query_tokens = <<>> THEN <<0, 1>>
    ELSE LET token == Head(query_tokens)
             rest == bm25_score(doc_tokens, Tail(query_tokens), documents, all_query_tokens)
         IN  IF Occurrences(doc_tokens, token) = 0 THEN rest
             ELSE FracAdd(bm25_term(Occurrences(doc_tokens, token), Len(doc_tokens), SumLengths(documents), Len(documents),
                                    DocumentFrequency(documents, all_query_tokens, token)),
                          rest)

\* `if score > 0`
Positive(score) == score[1] > 0

\* _bm25_search: [] for a query without tokens and for a store without
\* chunks; else every chunk scored, sorted by score, the first k taken and
\* of these the ones with a positive score returned
bm25_search(chunks, query_tokens, k) ==
    LET documents == [i \in DOMAIN chunks |-> chunks[i].content]
        scores == [i \in DOMAIN chunks |->
                      [chunk |-> chunks[i], score |-> bm25_score(documents[i], query_tokens, documents, query_tokens)]]
    IN  IF query_tokens = <<>> \/ chunks = <<>> THEN [results |-> <<>>, raised |-> FALSE]
        ELSE IF \E j \in DOMAIN query_tokens :
                    LogRaises(Len(documents), DocumentFrequency(documents, query_tokens, query_tokens[j]))
             THEN [results |-> <<>>, raised |-> TRUE]
             ELSE [results |-> SelectSeq(FirstK(sort_by_score(scores), k), LAMBDA item : Positive(item.score)),
                   raised |-> FALSE]

\* retrieve: the query embedding of the endpoint or [0.1] * 1024, the dense
\* search, the keyword search, the fusion and the chunks of its first k items
retrieve(vs, query_tokens, embed_dim_served, embed_ok, k, zero_k_raises) ==
    LET query_embedding == QueryEmbedding(embed_dim_served, embed_ok)
        dense == search(vs, query_embedding, k, zero_k_raises)
        vector_results == [i \in DOMAIN dense.results |-> Item(dense.results[i], Distance(query_embedding, dense.results[i].embedding))]
        keyword == bm25_search(vs.chunks, query_tokens, k)
        combined == reciprocal_rank_fusion(vector_results, keyword.results, FusionK)
    IN  IF dense.raised
        THEN [raised |-> "AssertionError", vector_results |-> <<>>, keyword_results |-> <<>>, scores |-> <<>>, chunks |-> <<>>]
        ELSE IF keyword.raised
        THEN [raised |-> "ValueError", vector_results |-> vector_results, keyword_results |-> <<>>, scores |-> <<>>, chunks |-> <<>>]
        ELSE [raised |-> "none", vector_results |-> vector_results, keyword_results |-> keyword.results,
              scores |-> combined.scores,
              chunks |-> [i \in DOMAIN FirstK(combined.result, k) |-> combined.result[i].chunk]]

\* the store of a system: chunks with embeddings of its dimension, a chunk
\* more than once after a session was loaded again
RetrievalStores ==
    UNION {{[dimension |-> d, chunks |-> c, index |-> [i \in DOMAIN c |-> c[i].embedding]] :
               c \in SeqsUpTo(StoredChunks(d), MaxFused)} : d \in Dims}

RetrieveInit ==
    /\ collections = [n \in CollectionNames |-> NoCollection]
    /\ StoreIdle
    /\ VSIdle
    /\ SysIdle
    /\ run = NoRun
    /\ expansion = NoExpansion
    /\ configured = NoConstruction
    /\ fusion = NoFusion
    /\ tokens = NoTokens
    /\ chunking = NoChunking
    /\ reranking = NoReranking
    /\ container = NoContainer
    /\ pool = NoPool
    /\ gathering = NoGathering
    /\ retrieval \in {[pc |-> "called", op |-> "none", vs |-> vs, query |-> q, k |-> k, embed_ok |-> TRUE,
                       raised |-> "none", vector_results |-> <<>>, keyword_results |-> <<>>, scores |-> <<>>,
                       chunks |-> <<>>] : vs \in RetrievalStores, q \in QueryTokens, k \in {1, 2, RetrieveK}}

\* a call of _bm25_search(query, k)
Bm25Search ==
    /\ retrieval.pc = "called"
    /\ LET r == bm25_search(retrieval.vs.chunks, retrieval.query, retrieval.k)
       IN  retrieval' = [retrieval EXCEPT !.pc = "returned", !.op = "bm25_search",
                                          !.raised = IF r.raised THEN "ValueError" ELSE "none",
                                          !.keyword_results = r.results]
    /\ UNCHANGED <<collections, storeVars, vsVars, sysVars, runVars, tokens, chunking, reranking, container, pool, gathering>>

\* a call of retrieve(query, k): the endpoint serves vectors of either
\* length or fails
Retrieve ==
    \E d \in Dims, embed_ok \in BOOLEAN, zero_k_raises \in BOOLEAN :
        /\ retrieval.pc = "called"
        /\ LET r == retrieve(retrieval.vs, retrieval.query, d, embed_ok, retrieval.k, zero_k_raises)
           IN  retrieval' = [retrieval EXCEPT !.pc = "returned", !.op = "retrieve", !.embed_ok = embed_ok,
                                              !.raised = r.raised, !.vector_results = r.vector_results,
                                              !.keyword_results = r.keyword_results, !.scores = r.scores,
                                              !.chunks = r.chunks]
        /\ UNCHANGED <<collections, storeVars, vsVars, sysVars, runVars, tokens, chunking, reranking, container, pool, gathering>>

RetrieveNext == Bm25Search \/ Retrieve

SpecRetrieve == RetrieveInit /\ [][RetrieveNext]_vars

(***************************************************************************)
(* SpecGather: the fan-in of search_web and of chunk_documents.  The stage *)
(* makes one awaitable per input (search query, document), gathers them    *)
(* with return_exceptions=True and extends its output with every result    *)
(* that is a list.  The sub-tasks complete in any order.  An item is       *)
(* <<input, rank>>: the rank-th result of the provider for that query, the *)
(* rank-th chunk (in position order) of that document.                     *)
(***************************************************************************)
GatherStages == {"search_web", "chunk_documents"}

\* what a sub-task ends with: an exception, or its list of items in the
\* order the service returned them
RaisedResult == [raised |-> TRUE, items |-> <<>>]

ListResult(input, n) == [raised |-> FALSE, items |-> [r \in 1..n |-> <<input, r>>]]

TaskResults(input) == {RaisedResult} \cup {ListResult(input, n) : n \in 0..MaxItems}

\* a gather that hands the results over in the order of completion
gather_as_completed(results, finished) == [i \in DOMAIN finished |-> results[finished[i]]]

\* asyncio.gather: the results in the order of the awaitables
gather(results, finished) == [i \in DOMAIN results |-> results[i]]

\* for i, result in enumerate(results): extend with the lists, log the
\* exceptions
RECURSIVE extend_all(_)
extend_all(results) ==
    IF results = <<>> THEN <<>>
    ELSE (IF Head(results).raised THEN <<>> ELSE Head(results).items) \o extend_all(Tail(results))

GatherInit ==
    /\ collections = [n \in CollectionNames |-> NoCollection]
    /\ StoreIdle
    /\ VSIdle
    /\ SysIdle
    /\ run = NoRun
    /\ expansion = NoExpansion
    /\ configured = NoConstruction
    /\ fusion = NoFusion
    /\ tokens = NoTokens
    /\ chunking = NoChunking
    /\ reranking = NoReranking
    /\ container = NoContainer
    /\ pool = NoPool
    /\ retrieval = NoRetrieval
    /\ gathering \in {[pc |-> st, stage |-> st, inputs |-> n, task |-> <<>>, results |-> <<>>,
                       finished |-> <<>>, output |-> <<>>] : st \in GatherStages, n \in 0..MaxInputs}

\* the stage up to its await: chunk_documents returns at once without
\* documents; else one sub-task per input
StartTasks ==
    /\ gathering.pc \in GatherStages
    /\ gathering' = IF gathering.stage = "chunk_documents" /\ gathering.inputs = 0
                    THEN [gathering EXCEPT !.pc = "returned"]
                    ELSE [gathering EXCEPT !.pc = "gather",
                                           !.task = [t \in 1..gathering.inputs |-> "pending"],
                                           !.results = [t \in 1..gathering.inputs |-> RaisedResult]]
    /\ UNCHANGED <<collections, storeVars, vsVars, sysVars, runVars, tokens, chunking, reranking, container, pool, retrieval>>

\* a sub-task returns its list or raises
TaskCompletes(t) ==
    \E r \in TaskResults(t) :
        /\ gathering.pc = "gather"
        /\ gathering.task[t] = "pending"
        /\ gathering' = [gathering EXCEPT !.task[t] = "done", !.results[t] = r, !.finished = Append(@, t)]
        /\ UNCHANGED <<collections, storeVars, vsVars, sysVars, runVars, tokens, chunking, reranking, container, pool, retrieval>>

\* gather returns when every sub-task is done; the loop builds the output
FanIn ==
    /\ gathering.pc = "gather"
    /\ \A t \in DOMAIN gathering.task : gathering.task[t] = "done"
    /\ gathering' = [gathering EXCEPT !.pc = "returned",
                                      !.output = extend_all(gather(gathering.results, gathering.finished))]
    /\ UNCHANGED <<collections, storeVars, vsVars, sysVars, runVars, tokens, chunking, reranking, container, pool, retrieval>>

GatherNext ==
    \/ StartTasks
    \/ \E t \in DOMAIN gathering.task : TaskCompletes(t)
    \/ FanIn

SpecGather == GatherInit /\ [][GatherNext]_vars

(***************************************************************************)
(* The claims.                                                             *)
(***************************************************************************)
\* the system whose call the locals belong to has returned
ReturnedTo(y) == call.who = y /\ pc[y] = "done"

\* C1 as stated: process_query never raises and returns a boolean success;
\* when the pipeline run raised an exception, the result is success = false
\* with an error text that contains the exception's message.
C1_ErrorHasEveryMessage ==
    \A y \in Systems :
        ReturnedTo(y) =>
            /\ ~result[y].raises
            /\ result[y].success \in BOOLEAN
            /\ (call.thrown # NoException /\ ~call.timed_out) =>
                   (~result[y].success /\ Contains(result[y].error, call.thrown.message))

\* C1 amended: process_query never raises and returns a boolean success;
\* when the pipeline run raised an exception that is not a TimeoutError, the
\* result is success = false with the exception's message as error text; a
\* TimeoutError raised inside the run is answered like an expired deadline,
\* with the fixed timeout text.
C1_NeverRaises ==
    \A y \in Systems :
        ReturnedTo(y) =>
            /\ ~result[y].raises
            /\ result[y].success \in BOOLEAN
            /\ (call.thrown # NoException /\ call.thrown.type # "TimeoutError") =>
                   (~result[y].success /\ Contains(result[y].error, call.thrown.message))
            /\ call.thrown.type = "TimeoutError" =>
                   (~result[y].success /\ result[y].error = TimeoutText)

\* a call in which the run raised ValueError("Test error") has returned
C1_Witness ==
    /\ ReturnedTo(1)
    /\ call.thrown.type = "ValueError"
    /\ result[1].error = <<"Test", "error">>

\* C2: when the deadline passes before the pipeline run has returned, the
\* result is success = false with an error whose lower-cased text contains
\* "timeout", whatever max_processing_time is configured.
C2_TimeoutResult ==
    \A y \in Systems :
        (ReturnedTo(y) /\ call.timed_out) =>
            /\ ~result[y].success
            /\ Contains(Lower(result[y].error), <<"timeout">>)

\* a call with a deadline above 0 was cut off after the pipeline had begun
C2_Witness ==
    /\ ReturnedTo(1)
    /\ call.timed_out
    /\ system[1].max_processing_time > 0
    /\ store[1].chunks # <<>>

\* C3: a call that returns a failure result has not invoked save_session and
\* has left every collection as it was when the call began.
C3_NoWriteOnFailure ==
    \A y \in Systems :
        (ReturnedTo(y) /\ ~result[y].success) =>
            /\ call.saves = 0
            /\ collections = call.before

\* a call timed out although its index held chunks the session's existing
\* collection would have accepted
C3_Witness ==
    /\ ReturnedTo(1)
    /\ call.timed_out
    /\ store[1].chunks # <<>>
    /\ UpsertAccepted(collections[collection_name(system[1].session_id)], PointsOf(store[1].chunks), TRUE)

\* C4: when load_session failed the call goes on with the index it had (no
\* chunk is added) and a failure result, if any, stems from the pipeline or
\* the deadline; when save_session failed after a completed run the call
\* still returns success = true with the response.
C4_BestEffort ==
    \A y \in Systems :
        /\ (call.who = y /\ ~call.load_ok /\ pc[y] = "generate_queries") => store[y] = call.store_before
        /\ (ReturnedTo(y) /\ ~call.load_ok /\ ~result[y].success) => call.thrown # NoException
        /\ (ReturnedTo(y) /\ call.answered /\ ~call.save_ok) => (result[y].success /\ result[y].response)

\* a call whose load failed and whose save was invoked and failed returned
\* success
C4_Witness ==
    /\ ReturnedTo(1)
    /\ ~call.load_ok
    /\ call.saves = 1
    /\ ~call.save_ok
    /\ result[1].success

\* C5: in every call load_session has happened exactly once before the first
\* stage, save_session happens at most once and only after generate_answer
\* has completed, and no step taken while a stage is running changes the
\* session store or loads from it.
C5_AccessPositions ==
    \A y \in Systems :
        call.who = y =>
            /\ pc[y] \in Stages => (call.loads = 1 /\ call.saves = 0)
            /\ pc[y] = "save" => (call.loads = 1 /\ call.saves = 0 /\ call.answered)
            /\ pc[y] = "done" => (call.loads = 1 /\ call.saves <= 1 /\ (call.saves = 1 => call.answered))

C5_StagesKeepOff ==
    \A y \in Systems :
        pc[y] \in Stages => (collections' = collections /\ call'.loads = call.loads /\ call'.saves = call.saves)

C5_BoundaryAccess == [](C5_AccessPositions) /\ [][C5_StagesKeepOff]_vars

\* a second call on a system has loaded the chunk its first call saved, run
\* all stages and saved once
C5_Witness ==
    /\ ReturnedTo(1)
    /\ calls[1] = 2
    /\ call.store_before.chunks # <<>>
    /\ call.saves = 1
    /\ call.before # collections

\* C6 as stated: once a run on system a has succeeded and saved under a
\* session (the server reachable, the session's collection in place), a
\* system b constructed afterwards over the same session has, when the
\* retrieval stage of its first run starts, every chunk a saved in its chunk
\* list and that chunk's vector in its index.
C6_SessionResume ==
    \A a, b \in Systems :
        ( /\ a # b
          /\ system[a].built /\ system[b].built
          /\ system[a].session_id = system[b].session_id
          /\ calls[a] >= 1 /\ system[b].after[a] = calls[a]
          /\ pc[a] = "done" /\ result[a].success /\ reached[a]
          /\ collections[collection_name(system[a].session_id)].exists
          /\ call.who = b /\ calls[b] = 1 /\ call.load_ok
          /\ pc[b] = "retrieve_chunks" )
        => \A i \in DOMAIN store[a].chunks :
               /\ store[a].chunks[i] \in Range(store[b].chunks)
               /\ store[a].chunks[i].embedding \in Range(store[b].index)

\* C7 as stated: right after save_session(C) a load_session(limit) on the
\* same session returns every chunk of C that has an embedding, when they are
\* no more than limit.
C7_RoundTrip ==
    (st_call.op = "save_session" /\ collections[collection_name(st_call.session)].exists) =>
        LET embedded == {i \in DOMAIN st_call.input : HasEmbedding(st_call.input[i])}
        IN  \A limit \in 1..MaxLimit :
                Cardinality(embedded) <= limit =>
                    \A i \in embedded :
                        st_call.input[i] \in Range(load_session(collections, collection_name(st_call.session), limit, TRUE))

\* C8: a load under one session id returns only chunks that were saved under
\* that session id, and a save under one session id leaves the collection of
\* every other session id as it was.
C8_LoadsOwn ==
    st_call.op = "load_session" =>
        \A i \in DOMAIN st_call.returned : st_call.returned[i].chunk_id \in st_saved[st_call.session]

C8_SaveKeepsOthers ==
    (st_session' = st_session /\ st_call'.op = "save_session") =>
        \A s \in SessionIds \ {st_call'.session} :
            collections'[collection_name(s)] = collections[collection_name(s)]

C8_NoCollision == [](C8_LoadsOwn) /\ [][C8_SaveKeepsOthers]_vars

\* two adapters over different session ids have both saved, and one has
\* loaded its own chunk back
C8_Witness ==
    /\ st_call.op = "load_session"
    /\ st_call.returned # <<>>
    /\ \E s \in SessionIds \ {st_call.session} :
           /\ st_saved[s] # {}
           /\ DOMAIN collections[collection_name(s)].points # {}
           /\ st_saved[s] # st_saved[st_call.session]

\* C9 as stated: after any sequence of add_chunks, search and clear calls the
\* chunk list and the vector array have the same length and the vector at
\* position i is the embedding of chunks[i].
C9_Aligned ==
    /\ Len(vstore.chunks) = Len(vstore.index)
    /\ \A i \in DOMAIN vstore.chunks : vstore.index[i] = vstore.chunks[i].embedding

\* C10 as stated: add_chunks appends exactly the input chunks whose embedding
\* is set and has the index dimension, in input order, to the chunk list and
\* their embeddings to the vector array; every other chunk changes neither.
Fitting(dimension, input) ==
    SelectSeq(input, LAMBDA c : HasEmbedding(c) /\ c.embedding.len = dimension)

C10_AppendsFitting ==
    vs_call.op = "add_chunks" =>
        LET fitting == Fitting(vs_call.before.dimension, vs_call.input)
        IN  /\ vstore.chunks = vs_call.before.chunks \o fitting
            /\ vstore.index = vs_call.before.index \o [i \in DOMAIN fitting |-> fitting[i].embedding]

\* C11 as stated: a search with a query of the index dimension returns at most
\* min(k, number of chunks held) results, each of them a chunk of the chunk
\* list; clear() empties the vector array and the chunk list, and a search
\* on the emptied store returns the empty list.
C11_SearchAndClear ==
    /\ vs_call.op = "clear" => (vstore.chunks = <<>> /\ vstore.index = <<>>)
    /\ (vs_call.op = "search" /\ vs_call.q.len = vstore.dimension) =>
           /\ ~vs_call.raised
           /\ Len(vs_call.results) <= Min(vs_call.k, Len(vstore.chunks))
           /\ \A i \in DOMAIN vs_call.results : vs_call.results[i] \in Range(vstore.chunks)
           /\ vstore.chunks = <<>> => vs_call.results = <<>>

\* C17: generate_queries returns one SearchQuery with between 1 and 3
\* processed queries and does not raise; the processed queries are exactly
\* [user_query] when no query was parsed from the reply or the LLM call
\* failed, and the first 3 parsed queries in their order when more than 3
\* were parsed.
C17_Expansion ==
    expansion.pc = "returned" =>
        LET parsed == ParsedQueries(expansion.llm.lines)
            processed == expansion.returned[1].processed_queries
        IN  /\ ~expansion.raised
            /\ Len(expansion.returned) = 1
            /\ Len(processed) \in 1..3
            /\ (~expansion.llm.ok \/ parsed = <<>>) => processed = <<UserQuery>>
            /\ (expansion.llm.ok /\ Len(parsed) > 3) => processed = SubSeq(parsed, 1, 3)

\* a reply with four different-looking numbered queries was cut to three
C17_Witness ==
    /\ expansion.pc = "returned"
    /\ Len(ParsedQueries(expansion.llm.lines)) = 4
    /\ expansion.returned[1].processed_queries = <<"x", "y", "x">>

RECURSIVE C20_Sum(_)
C20_Sum(ranks) ==
    IF ranks = {} THEN 0
    ELSE LET r == CHOOSE x \in ranks : TRUE
         IN  (RankProduct(60, MaxFused) \div (60 + r + 1)) + C20_Sum(ranks \ {r})

C19_FailFast ==
    /\ configured.pc \in {"built", "queried"} =>
           /\ KeysReadAtConstruction(configured.config) \o <<"max_processing_time">>
                  \in Seq(configured.config.present)
           /\ configured.config.chunk_overlap < configured.config.chunk_size
           /\ configured.config.vector_dimension = 1024
    /\ configured.pc = "queried" => configured.query_errors = {}

\* C14 as stated: where the embedding endpoint serves vectors of the
\* configured dimension, a step of a stage (in which a search, a crawl, a
\* chunking or an embedding call may have failed) hands on to the next stage,
\* and the call whose answer stage has run returns success = true.
C14_StagesGoOn ==
    \A y \in Systems :
        ( /\ embed_dim = system[y].vector_dimension
          /\ \/ GenerateSearchQueries(y) \/ SearchWeb(y) \/ CrawlDocuments(y) \/ ChunkDocuments(y)
             \/ StoreVectors(y) \/ RetrieveChunks(y) \/ GenerateAnswer(y) )
        => pc'[y] \in Stages \cup {"save"}

C14_AnsweredSucceeds ==
    \A y \in Systems : (ReturnedTo(y) /\ call.answered) => result[y].success

C14_PartialFailure == [](C14_AnsweredSucceeds) /\ [][C14_StagesGoOn]_vars

\* C18 as stated: where the embedding endpoint serves vectors of the
\* configured dimension d, the store stage with chunks to store, whether the
\* embedding call fails or not, leaves every chunk of the run with an
\* embedding of length d, adds all of them to the chunk list and their
\* vectors to the index, and hands on to the retrieval stage.
C18_StoreStep ==
    \A y \in Systems :
        (embed_dim = system[y].vector_dimension /\ call.state_chunks # <<>> /\ StoreVectors(y)) =>
            /\ pc'[y] = "retrieve_chunks"
            /\ Len(call'.state_chunks) = Len(call.state_chunks)
            /\ \A i \in DOMAIN call'.state_chunks :
                   call'.state_chunks[i].embedding.len = system[y].vector_dimension
            /\ store'[y].chunks = store[y].chunks \o call'.state_chunks
            /\ store'[y].index = store[y].index \o [i \in DOMAIN call'.state_chunks |-> call'.state_chunks[i].embedding]

C18_ZeroVectorOfDimension == [][C18_StoreStep]_vars

\* the stages of a run that come after crawl_documents, and its end
AfterCrawl == {"chunk_documents", "store_vectors", "retrieve_chunks", "generate_answer", "save", "returned"}

\* C12: once the crawl stage has run, no URL was crawled twice, every URL
\* crawled is a URL of the search results, and the number of crawl calls is
\* min(10, number of distinct URLs of the search results).
C12_CrawlOncePerUrl ==
    run.pc \in AfterCrawl =>
        /\ \A i, j \in DOMAIN run.crawl_calls : i # j => run.crawl_calls[i] # run.crawl_calls[j]
        /\ Range(run.crawl_calls) \subseteq unique_urls(run.web_documents)
        /\ Len(run.crawl_calls) = Min(10, Cardinality(unique_urls(run.web_documents)))

\* the crawl stage has run on search results that carry more than ten
\* distinct URLs, one of them twice
C12_Witness ==
    /\ run.pc \in AfterCrawl
    /\ Cardinality(unique_urls(run.web_documents)) > 10
    /\ Len(run.web_documents) > Cardinality(unique_urls(run.web_documents))
    /\ Len(run.crawl_calls) = 10

\* C13 as stated: once the search stage has run on an expansion with n
\* processed queries, n search calls were made, the i-th with the i-th
\* processed query and max_results = 7.
C13_OneCallPerQuery ==
    (run.pc \in AfterCrawl \cup {"crawl_documents"}) =>
        LET processed == run.search_queries[1].processed_queries
        IN  /\ Len(run.search_queries) = 1
            /\ Len(processed) \in 1..3
            /\ Len(run.search_calls) = Len(processed)
            /\ \A i \in DOMAIN run.search_calls :
                   run.search_calls[i] = [query |-> processed[i], max_results |-> 7]

\* C15 as stated: a call that has returned, whose search gave URLs and whose
\* crawls all failed, produced no chunk and returned success = true with no
\* sources and an answer.
C15_AllCrawlsFail ==
    ( /\ run.pc = "returned"
      /\ run.web_documents # <<>>
      /\ run.crawl_calls # <<>>
      /\ run.document_contents = <<>> )
    => /\ run.chunks = <<>>
       /\ run.result.success
       /\ run.response.sources = <<>>
       /\ run.response.answer # ""

\* C16 as stated: a call that has returned, whose search gave 3 distinct
\* URLs, whose crawls gave 3 bodies of at least 1500 characters and whose LLM
\* and embedding calls succeeded, holds at least 6 chunks in the vector
\* store and returned success = true with at most 5 sources and an answer.
C16_HappyPath ==
    ( /\ run.pc = "returned"
      /\ Cardinality(unique_urls(run.web_documents)) = 3
      /\ Len(run.document_contents) = 3
      /\ \A i \in DOMAIN run.document_contents : run.document_contents[i].content >= 1500
      /\ run.errors \cap {"generate_queries", "get_embeddings", "generate_answer"} = {} )
    => /\ Len(run.vs.chunks) >= 6
       /\ Len(run.vs.index) >= 6
       /\ run.result.success
       /\ Len(run.response.sources) <= 5
       /\ run.response.answer # ""

\* the maximal runs of characters of a class in a text, in the order of
\* their occurrence, that are at least two characters long
C21_RunStarts(text, class) ==
    SelectSeq([i \in DOMAIN text |-> i],
              LAMBDA i : text[i] \in class /\ (i = 1 \/ text[i - 1] \notin class))

C21_RunEnd(text, class, i) ==
    CHOOSE j \in i..Len(text) :
        /\ \A n \in i..j : text[n] \in class
        /\ (j = Len(text) \/ text[j + 1] \notin class)

C21_LongRuns(text, class) ==
    LET starts == C21_RunStarts(text, class)
        runs == [n \in DOMAIN starts |-> SubSeq(text, starts[n], C21_RunEnd(text, class, starts[n]))]
    IN  SelectSeq(runs, LAMBDA r : Len(r) >= 2)

C22_Ceil(a, b) == (a + b - 1) \div b

\* C22 as stated: the simple chunker, on a document of length L >= 50 with
\* chunk_size > overlap >= 0, returns ceil((L - 50) / (chunk_size - overlap))
\* chunks.
C22_ChunkCount ==
    ( /\ chunking.pc \in {"chunked", "rechunked"}
      /\ chunking.first.strategy = "simple"
      /\ chunking.content >= 50
      /\ chunking.chunk_size > chunking.overlap
      /\ chunking.overlap >= 0 )
    => /\ chunking.first_result.raised = "none"
       /\ Len(chunking.first_result.chunks) = C22_Ceil(chunking.content - 50, chunking.chunk_size - chunking.overlap)

\* the chunk ids of a chunking, position by position
C23_Ids(outcome) == [n \in DOMAIN outcome.chunks |-> <<outcome.chunks[n].metadata.position, outcome.chunks[n].chunk_id>>]

\* C23 as stated: chunking a document that has a passage to keep, and
\* chunking it again with another query, crawl time, context replies or
\* strategy, both yield chunks, with the same chunk_ids at the same positions.
C23_SameIds ==
    ( /\ chunking.pc = "rechunked"
      /\ chunking.chunk_size > chunking.overlap
      /\ KeptOffsets(chunking.content, chunking.chunk_size, chunking.overlap) # <<>> )
    => /\ chunking.first_result.raised = "none"
       /\ chunking.again_result.raised = "none"
       /\ chunking.first_result.chunks # <<>>
       /\ C23_Ids(chunking.first_result) = C23_Ids(chunking.again_result)

\* C24 as stated: the contextual chunker, on a document with passages to
\* keep, returns a chunk per passage; a chunk whose context call failed has
\* the raw passage as content and contextual_retrieval false, every other
\* chunk has its context at the start of its content and
\* contextual_retrieval true.
C24_ContextFallback ==
    ( /\ chunking.pc = "rechunked"
      /\ chunking.again.strategy = "contextual"
      /\ chunking.chunk_size > chunking.overlap
      /\ KeptOffsets(chunking.content, chunking.chunk_size, chunking.overlap) # <<>> )
    => LET outcome == chunking.again_result
           kept == KeptOffsets(chunking.content, chunking.chunk_size, chunking.overlap)
       IN  /\ outcome.raised = "none"
           /\ Len(outcome.chunks) = Len(kept)
           /\ \A n \in DOMAIN outcome.chunks :
                  IF ReplyTo(chunking.again.replies, n) \in {"raised", "apology"}
                  THEN /\ outcome.chunks[n].content = <<outcome.chunks[n].metadata.original_content>>
                       /\ ~outcome.chunks[n].metadata.contextual_retrieval
                  ELSE /\ ReplyTo(chunking.again.replies, n) = "context" => Head(outcome.chunks[n].content) = "context"
                       /\ outcome.chunks[n].metadata.contextual_retrieval

\* C25: rerank returns as many chunks as scores, min(k, number of input
\* chunks) of each; the chunks are distinct chunks of the input; scores[i]
\* is the share of the query's terms that the content of chunks[i] holds
\* (0 for a query without terms), so it lies in [0, 1]; the scores do not
\* increase; with the pipeline's k = 5 the scratch pad holds at most 5 chunks.
C25_Rerank ==
    reranking.pc \in {"reranked", "answered"} =>
        LET out == reranking.scratch_pad
            n == Min(reranking.k, Len(reranking.chunks))
        IN  /\ Len(out.chunks) = n
            /\ Len(out.scores) = n
            /\ \A i \in 1..n : \E j \in DOMAIN reranking.chunks : out.chunks[i] = reranking.chunks[j]
            /\ \A i, j \in 1..n : i # j => out.chunks[i].chunk_id # out.chunks[j].chunk_id
            /\ \A i \in 1..n :
                   /\ out.scores[i][2] > 0
                   /\ 0 <= out.scores[i][1]
                   /\ out.scores[i][1] <= out.scores[i][2]
                   /\ IF reranking.query = {} THEN out.scores[i][1] = 0
                      ELSE out.scores[i][1] * Cardinality(reranking.query)
                              = Cardinality({t \in reranking.query : t \in out.chunks[i].content}) * out.scores[i][2]
            /\ \A i \in 1..(n - 1) : out.scores[i][1] * out.scores[i + 1][2] >= out.scores[i + 1][1] * out.scores[i][2]
            /\ reranking.k = 5 => Len(out.chunks) <= 5

\* rerank has cut more than five chunks of different relevance to five
C25_Witness ==
    /\ reranking.pc = "reranked"
    /\ reranking.k = 5
    /\ Len(reranking.chunks) > 5
    /\ Len(reranking.scratch_pad.chunks) = 5
    /\ reranking.scratch_pad.scores[1] = <<2, 2>>
    /\ reranking.scratch_pad.scores[5] = <<0, 2>>
    /\ reranking.scratch_pad.chunks[1].chunk_id # 1

\* C26: the sources of the answer are the URLs of the scratch pad's chunks
\* in the scratch pad's order, one per chunk and at most 5, a URL as often
\* as the scratch pad has chunks of it.
C26_Sources ==
    reranking.pc = "answered" =>
        /\ Len(reranking.sources) = Len(reranking.scratch_pad.chunks)
        /\ Len(reranking.sources) <= 5
        /\ \A i \in DOMAIN reranking.sources : reranking.sources[i] = reranking.scratch_pad.chunks[i].source_url

\* an answer whose five sources name a URL more than once
C26_Witness ==
    /\ reranking.pc = "answered"
    /\ Len(reranking.chunks) > 5
    /\ Len(reranking.sources) = 5
    /\ \E i, j \in DOMAIN reranking.sources : i # j /\ reranking.sources[i] = reranking.sources[j]

\* C27: a getter called again returns the object it returned before, for
\* every service; and the vector store the store stage writes, the one the
\* retriever searches, the one session load fills and the one session save
\* reads are one object, the one get_vector_store returns.
C27_OneInstance ==
    container.pc # "none" =>
        /\ \A i, j \in DOMAIN container.got :
               container.got[i].name = container.got[j].name => container.got[i].instance = container.got[j].instance
        /\ \A i \in DOMAIN container.got :
               /\ container.got[i].instance = container.instances[container.got[i].name]
               /\ container.heap[container.got[i].instance].service = container.got[i].name
        /\ container.calls > 0 =>
               \E v \in DOMAIN container.heap :
                   /\ container.heap[v].service = "vector_store"
                   /\ container.loaded_into = {v}
                   /\ container.stored_into = {v}
                   /\ container.searched = {v}
                   /\ container.saved_from = {v}
                   /\ container.instances["vector_store"] = v
                   /\ \A i \in DOMAIN container.got : container.got[i].name = "vector_store" => container.got[i].instance = v

\* get_vector_store was called twice from outside, the first time before
\* anything was built, and the system built later has processed two queries
C27_Witness ==
    /\ container.calls = 2
    /\ Len(container.got) >= 2
    /\ container.got[1].name = "vector_store"
    /\ container.got[2].name = "vector_store"
    /\ container.got[1].instance = 1
    /\ container.searched = {1}

\* C30: at every moment of a chunk stage, whatever the number of documents
\* and the order in which the tasks run, the number of chunk_document calls
\* in progress is at most MAX_CONCURRENT_CHUNKS (2 when it is not set), and
\* it never was more.
C30_BoundedChunking ==
    pool.pc \in {"gather", "returned", "cancelled"} /\ pool.documents > 0 =>
        /\ Cardinality({t \in DOMAIN pool.task : pool.task[t] = "chunking"}) <= pool.max_concurrent_chunks
        /\ pool.peak <= pool.max_concurrent_chunks
        /\ pool.value = pool.max_concurrent_chunks - Cardinality({t \in DOMAIN pool.task : pool.task[t] = "chunking"})

\* with the default of 2: two documents are being chunked, one is done and
\* one waits for a permit
C30_Witness ==
    /\ pool.pc = "gather"
    /\ pool.max_concurrent_chunks = 2
    /\ pool.documents = 4
    /\ Cardinality({t \in DOMAIN pool.task : pool.task[t] = "chunking"}) = 2
    /\ \E t \in DOMAIN pool.task : pool.task[t] = "waiting"
    /\ \E t \in DOMAIN pool.task : pool.task[t] = "done"

\* C28: when process_query has returned the timeout result, the vector index
\* holds no chunk of the run that timed out: it is what it was when the run
\* began, that is what _load_session_data left.
C28_TimedOutRunLeavesNoChunk ==
    \A y \in Systems :
        ReturnedTo(y) /\ call.timed_out =>
            store[y] = load_session_data(call.before, collection_name(system[y].session_id),
                                         call.store_before, call.load_ok).store

C40_TaskIs(t, state) == t \in DOMAIN pool.task /\ pool.task[t] = state

\* C40: with MAX_CONCURRENT_CHUNKS >= 1 and every chunk_document call
\* returning or raising, every task that waits for a slot gets one and leaves
\* it again, the stage returns, and after it every slot is free.
C40_StageFinishes ==
    /\ \A t \in 1..(MaxDocs + 1) :
           (pool.pc = "gather" /\ pool.max_concurrent_chunks >= 1 /\ C40_TaskIs(t, "waiting")) ~> C40_TaskIs(t, "chunking")
    /\ \A t \in 1..(MaxDocs + 1) :
           (pool.pc = "gather" /\ C40_TaskIs(t, "chunking")) ~> C40_TaskIs(t, "done")
    /\ (pool.pc = "chunk_documents" /\ pool.max_concurrent_chunks >= 1) ~> (pool.pc = "returned")
    /\ [](pool.pc = "returned" /\ pool.documents > 0 =>
              /\ pool.value = pool.max_concurrent_chunks
              /\ \A t \in DOMAIN pool.task : pool.task[t] = "done")

\* four documents through one slot: the stage has returned, every task is
\* done and the slot is free
C40_Witness ==
    /\ pool.pc = "returned"
    /\ pool.max_concurrent_chunks = 1
    /\ pool.documents = 4
    /\ pool.peak = 1
    /\ pool.value = 1
    /\ \A t \in DOMAIN pool.task : pool.task[t] = "done"

\* C39 as stated: when store_vectors has returned normally, every chunk of
\* state["chunks"] has an embedding and is among the chunks the call added
\* to the vector store, also when the embedder returned fewer vectors than
\* texts.
C39_AllEmbeddedAndHeld ==
    (vs_call.op = "store_vectors" /\ ~vs_call.raised) =>
        /\ \A i \in DOMAIN vs_call.input : HasEmbedding(vs_call.input[i])
        /\ vstore.chunks = vs_call.before.chunks \o vs_call.input

\* C37 as stated: whatever calls a system has made, its vector store holds
\* no chunk_id twice.
C37_NoChunkIdTwice ==
    \A y \in Systems :
        \A i, j \in DOMAIN store[y].chunks :
            store[y].chunks[i].chunk_id = store[y].chunks[j].chunk_id => i = j

\* the chunk_ids a collection holds
C38_Persisted(col) == {col.points[id].payload.chunk_id : id \in DOMAIN col.points}

\* C38 as stated: no step of any run, on any system of a session, takes a
\* persisted chunk_id out of the session's collection.
C38_SessionOnlyGrows ==
    [][\A n \in CollectionNames : C38_Persisted(collections[n]) \subseteq C38_Persisted(collections'[n])]_vars

\* C31: whatever the order in which the sub-tasks of search_web or of
\* chunk_documents completed, the stage's output holds every item of every
\* list that was returned exactly once, the items of one input next to each
\* other in the order their service returned them, and the inputs in the
\* order of the stage's input list.
C31_FanInKeepsOrder ==
    gathering.pc = "returned" /\ gathering.inputs > 0 =>
        /\ \A t \in DOMAIN gathering.results : \A r \in DOMAIN gathering.results[t].items :
               Cardinality({i \in DOMAIN gathering.output : gathering.output[i] = <<t, r>>}) = 1
        /\ \A i \in DOMAIN gathering.output :
               /\ gathering.output[i][1] \in DOMAIN gathering.results
               /\ gathering.output[i][2] \in DOMAIN gathering.results[gathering.output[i][1]].items
        /\ \A i, j \in DOMAIN gathering.output :
               i < j => \/ gathering.output[i][1] < gathering.output[j][1]
                        \/ /\ gathering.output[i][1] = gathering.output[j][1]
                           /\ gathering.output[i][2] < gathering.output[j][2]

\* the last of three sub-tasks completed first and the first one last, each
\* with two items, and the stage has returned
C31_Witness ==
    /\ gathering.pc = "returned"
    /\ gathering.inputs = 3
    /\ gathering.finished = <<3, 2, 1>>
    /\ Len(gathering.output) = 6

\* C34 as stated: _bm25_search returns, for every query and store, at most
\* k results in non-increasing score order, each a chunk of the store's
\* list that holds a query token and has a score above 0, and returns
\* nothing for a query without tokens or a store without chunks.
C34_Bm25Results ==
    (retrieval.pc = "returned" /\ retrieval.op = "bm25_search") =>
        /\ retrieval.raised = "none"
        /\ Len(retrieval.keyword_results) <= retrieval.k
        /\ \A i \in DOMAIN retrieval.keyword_results :
               /\ retrieval.keyword_results[i].chunk \in Range(retrieval.vs.chunks)
               /\ Range(retrieval.keyword_results[i].chunk.content) \cap Range(retrieval.query) # {}
               /\ retrieval.keyword_results[i].score[1] > 0
               /\ i > 1 => AtLeast(retrieval.keyword_results[i - 1].score, retrieval.keyword_results[i].score)
        /\ (retrieval.query = <<>> \/ retrieval.vs.chunks = <<>>) => retrieval.keyword_results = <<>>

\* C33 as stated: a retrieve whose query embedding failed does not raise,
\* whatever the dimension of the index, and every chunk the keyword search
\* scores above 0 is among the fused candidates.
C33_EmbeddingFailureTolerated ==
    (retrieval.pc = "returned" /\ retrieval.op = "retrieve" /\ ~retrieval.embed_ok) =>
        /\ retrieval.raised = "none"
        /\ \A i \in DOMAIN retrieval.keyword_results :
               retrieval.keyword_results[i].chunk.chunk_id \in DOMAIN retrieval.scores

\* the chunk_ids retrieve returned
C32_Returned == {retrieval.chunks[i].chunk_id : i \in DOMAIN retrieval.chunks}

\* C32: when retrieve returns, it returns min(k, number of fused ids)
\* chunks, no chunk_id twice; each is a chunk of the dense or of the keyword
\* list, the fused ids being the ids of the two lists; the chunks stand in
\* non-increasing order of fused score and no chunk left out has a higher
\* score than one returned.
C32_FusedTopK ==
    (retrieval.pc = "returned" /\ retrieval.op = "retrieve" /\ retrieval.raised = "none") =>
        /\ Len(retrieval.chunks) = Min(retrieval.k, Cardinality(DOMAIN retrieval.scores))
        /\ Cardinality(C32_Returned) = Len(retrieval.chunks)
        /\ DOMAIN retrieval.scores = IdsOf(retrieval.vector_results) \cup IdsOf(retrieval.keyword_results)
        /\ \A i \in DOMAIN retrieval.chunks :
               /\ \E j \in DOMAIN (retrieval.vector_results \o retrieval.keyword_results) :
                      (retrieval.vector_results \o retrieval.keyword_results)[j].chunk = retrieval.chunks[i]
               /\ i > 1 => retrieval.scores[retrieval.chunks[i - 1].chunk_id] >= retrieval.scores[retrieval.chunks[i].chunk_id]
               /\ \A id \in DOMAIN retrieval.scores \ C32_Returned :
                      retrieval.scores[id] <= retrieval.scores[retrieval.chunks[i].chunk_id]

\* three chunks are candidates, one of them found by both searches, and the
\* two with the best fused scores were returned for k = 2
C32_Witness ==
    /\ retrieval.pc = "returned"
    /\ retrieval.op = "retrieve"
    /\ retrieval.raised = "none"
    /\ retrieval.k = 2
    /\ Cardinality(DOMAIN retrieval.scores) = 3
    /\ IdsOf(retrieval.vector_results) \cap IdsOf(retrieval.keyword_results) # {}
    /\ IdsOf(retrieval.keyword_results) \ IdsOf(retrieval.vector_results) # {}
    /\ Len(retrieval.chunks) = 2

\* the offsets 0, step, 2 step, ... below the length of the content whose
\* window content[i : i + chunk_size] has 50 characters or more
C35_Offsets(content, chunk_size, step) ==
    {i \in 0..(content - 1) : i % step = 0 /\ Min(chunk_size, content - i) >= 50}

\* the raw passage of a chunk: its content, or metadata.original_content
\* of a contextual chunk
C35_RawLength(chunk) ==
    IF "original_content" \in DOMAIN chunk.metadata THEN chunk.metadata.original_content ELSE chunk.content

\* the chunks of an outcome are the windows at the given offsets, in
\* increasing order of metadata.position, none longer than chunk_size
C35_Partition(outcome, content, chunk_size, step) ==
    /\ outcome.raised = "none"
    /\ {outcome.chunks[n].metadata.position : n \in DOMAIN outcome.chunks} = C35_Offsets(content, chunk_size, step)
    /\ \A m, n \in DOMAIN outcome.chunks : m < n => outcome.chunks[m].metadata.position < outcome.chunks[n].metadata.position
    /\ \A n \in DOMAIN outcome.chunks :
           /\ C35_RawLength(outcome.chunks[n]) = Min(chunk_size, content - outcome.chunks[n].metadata.position)
           /\ C35_RawLength(outcome.chunks[n]) <= chunk_size

\* C35 as stated: with chunk_size > overlap, either chunking strategy emits
\* exactly the windows content[i : i + chunk_size] at i = 0, step, 2 step, ...
\* below len(content) that have 50 characters or more, each with its offset
\* as metadata.position, in increasing offset order and none longer than
\* chunk_size.
C35_SlidingWindows ==
    ( /\ chunking.pc = "rechunked"
      /\ chunking.chunk_size > chunking.overlap )
    => /\ C35_Partition(chunking.first_result, chunking.content, chunking.chunk_size, chunking.chunk_size - chunking.overlap)
       /\ C35_Partition(chunking.again_result, chunking.content, chunking.chunk_size, chunking.chunk_size - chunking.overlap)

\* a context, two newline characters and a raw passage
C36_Expected(context, raw) == <<context, "\n\n", raw>>

\* C36 as stated: the contextual chunker returns, for every passage whose
\* context was generated, a chunk whose content is the context, two
\* newline characters and the raw passage, with the raw passage as
\* metadata.original_content.
C36_ContextThenPassage ==
    ( /\ chunking.pc = "rechunked"
      /\ chunking.again.strategy = "contextual"
      /\ chunking.chunk_size > chunking.overlap
      /\ KeptOffsets(chunking.content, chunking.chunk_size, chunking.overlap) # <<>> )
    => LET outcome == chunking.again_result
           kept == KeptOffsets(chunking.content, chunking.chunk_size, chunking.overlap)
       IN  /\ \A n \in DOMAIN kept :
                  ReplyTo(chunking.again.replies, n) = "context" =>
                      LET raw == WindowLength(chunking.content, kept[n], chunking.chunk_size)
                      IN  /\ contextual_content(contextual_response("context"), raw) = C36_Expected("context", raw)
                          /\ n \in DOMAIN outcome.chunks
                          /\ outcome.chunks[n].content = C36_Expected("context", raw)
                          /\ outcome.chunks[n].metadata.original_content = raw

====
